---------------------------- MODULE Spec2Model ----------------------------
(***************************************************************************)
(* Model of the ad-campaign pipeline of dext01/project_creative:           *)
(*   promt.py  - MistralClient / MockLLMClient (variant generation)        *)
(*   main.py   - product scoring, audience simulation, best-ad selection   *)
(*   app.py    - the Streamlit pipeline and its own variant generators     *)
(*   productAnalyzer.py - ProductAnalyzer.run and its demand queries       *)
(*                                                                         *)
(* Conventions.                                                            *)
(*  - The Russian text of the code's templates is transliterated.          *)
(*  - A Python str is a sequence of tokens (strings); concatenation is \o. *)
(*  - A Python float that is a probability or a score is an integer in     *)
(*    units of 1/10000 (One == 10000 is 1.0) .                             *)
(*  - Every operation of the code is one action; the variable it writes    *)
(*    is the record of the last call: its inputs and what it returned or   *)
(*    raised.                                                              *)
(***************************************************************************)
EXTENDS Integers, Sequences, FiniteSets, TLC

VARIABLES
    mistralCall,    \* last call of MistralClient.generate_variants
    mockCall,       \* last direct call of MockLLMClient.generate_variants
    mockPrevCall,   \* the direct call of MockLLMClient.generate_variants before it
    simCall,        \* last call of simulate_ad_for_consumer
    audCall,        \* last call of evaluate_ad_on_audience
    pickCall,       \* last call of pick_best_per_channel
    scoreCall,      \* last call of compute_product_ad_score
    topCall,        \* last call of select_top_products
    run,            \* the campaign run built from main.py's functions
    appRun,         \* the pipeline of app.py
    analyzer,       \* ProductAnalyzer.run
    genCall,        \* last call of generate_synthetic_consumers
    rng             \* the state of the `random` module's generator

clientVars == <<mistralCall, mockCall, mockPrevCall>>
simVars == <<simCall, audCall>>
topVars == <<scoreCall, topCall>>
pipelineVars == <<run, appRun, analyzer, genCall, rng>>
vars == <<clientVars, simVars, pickCall, topVars, pipelineVars>>

NoCall == [called |-> FALSE]

(***************************************************************************)
(* Bounds of the model.                                                    *)
(***************************************************************************)
MaxVariants == 3    \* largest n_variants requested
MaxRemote == 3      \* longest `variants` array the remote service returns
MaxAudience == 2    \* largest consumer list given to evaluate_ad_on_audience
MaxAds == 3         \* longest list of scored ads given to pick_best_per_channel
MaxCatalog == 3     \* longest catalog given to select_top_products
MaxGenerated == 5   \* largest n given to generate_synthetic_consumers
MaxDrawn == 6       \* most values other code draws from `random` between two calls
MaxRunVariants == 2 \* most variants per channel asked for in a campaign run
MaxK == 3           \* largest k given to select_top_products

Min(a, b) == IF a < b THEN a ELSE b
Max(a, b) == IF a > b THEN a ELSE b

SeqsUpTo(S, n) == UNION {[1..m -> S] : m \in 0..n}

(***************************************************************************)
(* promt.py: AdVariant and the payload of generate_variants.               *)
(***************************************************************************)
Channels == {"telegram", "vk", "yandex_ads"}

\* payload["channel"] values tried: the three channels and one unknown to the code
PayloadChannels == Channels \cup {"email"}

\* product.get("name", ...): the key is absent, or holds a name
Missing == "<missing>"
PayloadNames == {Missing, "Headphones"}

\* product.get("features"): absent, or a list of strings of which some are empty
PayloadFeatures == {<<"", "">>, <<"RGB backlight", "">>,
                    <<"RGB backlight", "Demand: 1000 requests.">>}

Payloads ==
    [name : PayloadNames, features : PayloadFeatures,
     channel : PayloadChannels, n_variants : 0..MaxVariants]

AdVariant(channel, headline, text, cta, notes) ==
    [channel |-> channel, headline |-> headline, text |-> text,
     cta |-> cta, notes |-> notes]

\* ", ".join(parts)
RECURSIVE JoinComma(_)
JoinComma(parts) ==
    IF Len(parts) = 0 THEN <<>>
    ELSE IF Len(parts) = 1 THEN <<parts[1]>>
    ELSE <<parts[1], ", ">> \o JoinComma(Tail(parts))

\* [f for f in features if f]
RECURSIVE Truthy(_)
Truthy(features) ==
    IF Len(features) = 0 THEN <<>>
    ELSE IF Head(features) = "" THEN Truthy(Tail(features))
    ELSE <<Head(features)>> \o Truthy(Tail(features))

MockName(payload) ==
    IF payload.name = Missing THEN "Tovar" ELSE payload.name

MockFeaturesText(payload) ==
    LET joined == JoinComma(Truthy(payload.features))
    IN  IF joined = <<>> THEN <<"otlichnye kharakteristiki">> ELSE joined

\* the per-channel template of MockLLMClient.generate_variants
MockBase(payload) ==
    LET name == MockName(payload)
        ft == MockFeaturesText(payload)
    IN  IF payload.channel = "telegram" THEN
            AdVariant("telegram",
                      <<"(fire) ", name, " - zaberi, poka est!">>,
                      <<"Nash ", name, " s ">> \o ft \o <<". Eto novinka, kotoruyu vse zhdut. Uspey, poka tsena eshche derzhitsya! (rocket)">>,
                      <<"Uspet vzyat seychas ->">>,
                      <<"Mock: kratko, emotsii, FOMO.">>)
        ELSE IF payload.channel = "vk" THEN
            AdVariant("vk",
                      <<name, ": Tekhnika, kotoraya raduet kazhdyy den | Otzyvy 4.9/5">>,
                      <<name, " - vybor tekh, kto tsenit komfort i kachestvo. ", "Osobennosti: ">> \o ft
                          \o <<". Posmotrite, chto govoryat drugie pokupateli! Mnogie uzhe otsenili etot variant.">>,
                      <<"Zakazat onlayn i poluchit skidku">>,
                      <<"Mock: dlinnee tekst, sotsdokazatelstvo.">>)
        ELSE
            AdVariant("yandex_ads",
                      <<"Vygodnaya Tsena na ", name, " - Speshite!">>,
                      <<name, " s ">> \o ft \o <<". Bystraya dostavka po RF. Garantiya 1 god. Zakazat onlayn.">>,
                      <<"Kupit onlayn">>,
                      <<"Mock: sukho, po delu, pod poisk.">>)

\* a mock that numbers its variants from 0: "(Variant 0)" first, one variant more
MockGenerateVariants_OffByOne(payload) ==
    LET base == MockBase(payload)
    IN  [i \in 1..(payload.n_variants + 1) |->
            AdVariant(base.channel,
                      base.headline \o <<" (Variant ", ToString(i - 1), ")">>,
                      base.text, base.cta, base.notes)]

\* MockLLMClient.generate_variants: n copies of the base variant, numbered from 1
MockGenerateVariants(payload) ==
    LET base == MockBase(payload)
    IN  [i \in 1..payload.n_variants |->
            AdVariant(base.channel,
                      base.headline \o <<" (Variant ", ToString(i), ")">>,
                      base.text, base.cta, base.notes)]

(***************************************************************************)
(* promt.py: what the remote service answers to one requests.post.         *)
(*   net      - the transport: the post succeeds, or requests raises       *)
(*   envelope - the shape of response.json()                               *)
(*   content  - raw_response["choices"][0]["message"]["content"]           *)
(*   parsed   - the JSON type of json.loads(content)                       *)
(*   variants - the value under the "variants" key of the parsed object    *)
(*   items    - the elements of a "variants" array                         *)
(* A field that the code never reaches for an outcome holds NA.            *)
(***************************************************************************)
NA == "n/a"

\* requests.post / raise_for_status / response.json raising a RequestException
NetworkFailures == {"connection_error", "http_error_status", "timeout", "body_not_json"}

\* response.json() returned, but indexing ["choices"][0]["message"]["content"] raises
BadEnvelopes == {"not_a_dict", "no_choices", "empty_choices", "no_message", "no_content"}

\* content values json.loads cannot take: a str that is not JSON, None, a number
BadContents == {"prose", "null", "number"}

\* json.loads(content) is not an object
NonObjects == {"list", "string", "number", "null"}

\* a "variants" value that is not an array of objects
BadVariantTypes == {"null", "number", "string", "empty_string", "object", "empty_object"}

\* one element of the "variants" array: a JSON object with some of the keys, or not an object
RemoteItems ==
    { [dict |-> FALSE, channel |-> Missing, headline |-> Missing, text |-> Missing,
       cta |-> Missing, notes |-> Missing],
      [dict |-> TRUE, channel |-> Missing, headline |-> Missing, text |-> Missing,
       cta |-> Missing, notes |-> Missing],
      [dict |-> TRUE, channel |-> Missing, headline |-> "Remote headline C", text |-> Missing,
       cta |-> Missing, notes |-> Missing],
      [dict |-> TRUE, channel |-> "vk", headline |-> "Remote headline A", text |-> "Remote text A",
       cta |-> "Remote cta A", notes |-> "Remote notes A"],
      [dict |-> TRUE, channel |-> "telegram", headline |-> "Remote headline B", text |-> "Remote text B",
       cta |-> "Remote cta B", notes |-> "Remote notes B"] }

Outcome(net, envelope, content, parsed, variants, items) ==
    [net |-> net, envelope |-> envelope, content |-> content, parsed |-> parsed,
     variants |-> variants, items |-> items]

ApiOutcomes ==
    {Outcome(f, NA, NA, NA, NA, <<>>) : f \in NetworkFailures}
    \cup {Outcome("ok", e, NA, NA, NA, <<>>) : e \in BadEnvelopes}
    \cup {Outcome("ok", "ok", c, NA, NA, <<>>) : c \in BadContents}
    \cup {Outcome("ok", "ok", "json", t, NA, <<>>) : t \in NonObjects}
    \cup {Outcome("ok", "ok", "json", "object", "absent", <<>>)}
    \cup {Outcome("ok", "ok", "json", "object", v, <<>>) : v \in BadVariantTypes}
    \cup {Outcome("ok", "ok", "json", "object", "array", items) :
            items \in SeqsUpTo(RemoteItems, MaxRemote)}

(***************************************************************************)
(* promt.py: MistralClient.                                                *)
(***************************************************************************)
\* what a call returns to its caller: a value, or the exception it raised
Returned(value) == [raised |-> "none", value |-> value]
Raised(exception) == [raised |-> exception, value |-> <<>>]

\* _call_api without its except clause: the requests exception reaches the caller
CallApi_Uncaught(outcome) ==
    IF outcome.net = "ok" THEN Returned(outcome)
    ELSE Raised("requests.RequestException")

\* MistralClient._call_api: every RequestException (ConnectionError, HTTPError from
\* raise_for_status, Timeout after 30 s, JSONDecodeError of response.json) is re-raised
\* as the builtin ConnectionError
CallApi(outcome) ==
    IF outcome.net = "ok" THEN Returned(outcome)
    ELSE Raised("ConnectionError")

\* AdVariant(channel=v_data.get("channel", channel), ...)
AdVariantFromData(v_data, channel) ==
    AdVariant(IF v_data.channel = Missing THEN channel ELSE v_data.channel,
              IF v_data.headline = Missing THEN <<"Zagolovok ot Mistral">> ELSE <<v_data.headline>>,
              IF v_data.text = Missing THEN <<"Tekst ot Mistral">> ELSE <<v_data.text>>,
              IF v_data.cta = Missing THEN <<"CTA">> ELSE <<v_data.cta>>,
              IF v_data.notes = Missing THEN <<"Sgenerirovano Mistral">> ELSE <<v_data.notes>>)

\* the loop `for v_data in variants_data`: the variants built so far, or the
\* AttributeError of v_data.get on an element that is not an object
RECURSIVE BuildVariants(_, _, _)
BuildVariants(items, channel, variants) ==
    IF Len(items) = 0 THEN Returned(variants)
    ELSE IF ~Head(items).dict THEN Raised("AttributeError")
    ELSE BuildVariants(Tail(items), channel,
                       Append(variants, AdVariantFromData(Head(items), channel)))

\* variants[:n - 1]: a slice one short
Take_OneShort(s, n) == SubSeq(s, 1, Min(Max(n - 1, 0), Len(s)))

\* variants[:n]
Take(s, n) == SubSeq(s, 1, Min(n, Len(s)))

\* the `except Exception` handler of generate_variants: its print evaluates
\* raw_content[:200] before the mock is called
ParseFailureHandler(payload, outcome) ==
    IF outcome.envelope # "ok" THEN Raised("UnboundLocalError")     \* raw_content never assigned
    ELSE IF outcome.content \in {"null", "number"} THEN Raised("TypeError")   \* not subscriptable
    ELSE Returned(MockGenerateVariants(payload))

\* the second try block of generate_variants (lines 174-200), up to its return
ParseAndPad(payload, outcome) ==
    IF outcome.envelope # "ok" THEN Raised("KeyError")
    ELSE IF outcome.content # "json" THEN Raised("JSONDecodeError")
    ELSE IF outcome.parsed # "object" THEN Raised("AttributeError")
    ELSE IF outcome.variants \in {"null", "number"} THEN Raised("TypeError")
    ELSE IF outcome.variants \in {"string", "object"} THEN Raised("AttributeError")
    ELSE LET built == BuildVariants(outcome.items, payload.channel, <<>>)
         IN  IF built.raised # "none" THEN built
             ELSE LET variants == built.value
                      padded == IF Len(variants) < payload.n_variants
                                THEN variants \o MockGenerateVariants(payload)
                                ELSE variants
                  IN  Returned(Take(padded, payload.n_variants))

\* generate_variants that replaces a short remote answer by the mock's instead of padding it
MistralGenerateVariants_DropShort(payload, outcome) ==
    LET api == CallApi(outcome)
        parsed == ParseAndPad(payload, outcome)
    IN  IF api.raised # "none" THEN Returned(MockGenerateVariants(payload))
        ELSE IF parsed.raised # "none" THEN ParseFailureHandler(payload, outcome)
        ELSE IF Len(outcome.items) < payload.n_variants
             THEN Returned(MockGenerateVariants(payload))
             ELSE parsed

\* MistralClient.generate_variants
MistralGenerateVariants(payload, outcome) ==
    LET api == CallApi(outcome)
    IN  IF api.raised \in {"ConnectionError", "ValueError"}
        THEN Returned(MockGenerateVariants(payload))
        ELSE IF api.raised # "none" THEN api
        ELSE LET parsed == ParseAndPad(payload, outcome)
             IN  IF parsed.raised = "none" THEN parsed
                 ELSE ParseFailureHandler(payload, outcome)

(***************************************************************************)
(* Actions of the variant-generation clients.                              *)
(***************************************************************************)
\* one call of MistralClient.generate_variants, the remote service answering `outcome`
MistralGenerate ==
    /\ ~mistralCall.called
    /\ \E payload \in Payloads, outcome \in ApiOutcomes :
          mistralCall' = [called |-> TRUE, payload |-> payload, outcome |-> outcome,
                          network_calls |-> 1,
                          result |-> MistralGenerateVariants(payload, outcome)]
    /\ UNCHANGED <<mockCall, mockPrevCall, simVars, pickCall, topVars, pipelineVars>>

\* one direct call of MockLLMClient.generate_variants; the call before it is kept
MockGenerate ==
    /\ \E payload \in Payloads :
          mockCall' = [called |-> TRUE, payload |-> payload, network_calls |-> 0,
                       result |-> Returned(MockGenerateVariants(payload))]
    /\ mockPrevCall' = mockCall
    /\ UNCHANGED <<mistralCall, simVars, pickCall, topVars, pipelineVars>>

InitIdle ==
    /\ mistralCall = NoCall
    /\ mockCall = NoCall
    /\ mockPrevCall = NoCall
    /\ simCall = NoCall
    /\ audCall = NoCall
    /\ pickCall = NoCall
    /\ scoreCall = NoCall
    /\ topCall = NoCall
    /\ run = NoCall
    /\ appRun = NoCall
    /\ analyzer = NoCall
    /\ genCall = NoCall
    /\ rng = [seed |-> "os", drawn |-> 0]

\* the remote client
SpecMistral == InitIdle /\ [][MistralGenerate]_vars

\* the mock client
SpecMock == InitIdle /\ [][MockGenerate]_vars

(***************************************************************************)
(* main.py: the response simulator.  Probabilities are in units of 1/One.  *)
(***************************************************************************)
One == 10000

\* the substrings of the lowered ad text that evaluate_ad and
\* simulate_ad_for_consumer look for ("hit" is "хит" or "бестселлер"; "reviews"
\* is any of "выбор покупателей", "отзывы", "рейтинг")
Keywords == {"skid", "besplatn", "novin", "dostavka", "hit", "akciya", "reviews"}

\* len(ad_text): below 80, 80..600, above 600
Lengths == {"short", "medium", "long"}

\* an ad text: the keywords it contains and its length
AdTexts == [keywords : SUBSET Keywords, length : Lengths]

\* a product: whether name + description + category mention the word "gadzhety"
SimProducts == [words : {{}, {"gadzhety"}}]

\* consumer profiles: segment, interests, behaviour tags, price sensitivity
Segments == {"Low_income_pragmatic_youth", "Premium_quality_oriented"}
BehaviorTags == {"reagiruet na skidki", "lyubit novinki", "doveryaet otzyvam"}
PriceSensitivities == {0, 6000, One}
Consumers ==
    [segment : Segments, interests : {<<>>, <<"gadzhety">>},
     behavior : SUBSET BehaviorTags, price_sensitivity : PriceSensitivities]

\* random.uniform(-0.02, 0.02): the two ends and the middle
Jitter == 200
Jitters == {-Jitter, 0, Jitter}

\* max(0.0, min(1.0, x))
Clamp(x) == Max(0, Min(One, x))

Scores(click, purchase) == [click_probability |-> click, purchase_probability |-> purchase]

\* the additive score of evaluate_ad before clamping
BaseScore(ad_text, target_audience) ==
    LET kw == ad_text.keywords
    IN  5000
        + (IF "skid" \in kw THEN 2000 ELSE 0)
        + (IF "besplatn" \in kw THEN 1000 ELSE 0)
        + (IF "novin" \in kw THEN 500 ELSE 0)
        + (IF "dostavka" \in kw THEN 500 ELSE 0)
        + (IF "hit" \in kw THEN 500 ELSE 0)
        - (IF ad_text.length = "short" THEN 1000
           ELSE IF ad_text.length = "long" THEN 1000 ELSE 0)
        + (IF target_audience = "Low_income_pragmatic_youth" /\ "skid" \in kw THEN 500 ELSE 0)

\* evaluate_ad with the purchase probability not lowered by 0.1
EvaluateAd_NoOffset(ad_text, target_audience) ==
    LET score == BaseScore(ad_text, target_audience)
    IN  Scores(Clamp(score), Clamp(score))

\* evaluate_ad
EvaluateAd(ad_text, target_audience) ==
    LET score == BaseScore(ad_text, target_audience)
    IN  Scores(Clamp(score), Clamp(score - 1000))

\* any(word in text_lower or word in product_text for word in interests.split()):
\* the ad texts of the model do not contain the interest word, the product may
InterestMatch(product, consumer) ==
    \E i \in 1..Len(consumer.interests) : consumer.interests[i] \in product.words

\* simulate_ad_for_consumer; jc and jp are its two draws of random.uniform
SimulateAdForConsumer(ad_text, product, consumer, jc, jp) ==
    LET base == EvaluateAd(ad_text, consumer.segment)
        kw == ad_text.keywords
        ps == consumer.price_sensitivity
        interest == InterestMatch(product, consumer)
        discount == "reagiruet na skidki" \in consumer.behavior
                        /\ ("skid" \in kw \/ "akciya" \in kw)
        novelty == "lyubit novinki" \in consumer.behavior /\ "novin" \in kw
        reviews == "doveryaet otzyvam" \in consumer.behavior /\ "reviews" \in kw
        score == base.click_probability
                    + (IF interest THEN 500 ELSE 0)
                    + (IF discount THEN (800 * ps) \div One ELSE 0)
                    + (IF novelty THEN 500 ELSE 0)
                    + (IF reviews THEN 400 ELSE 0)
                    + jc
        purchase == base.purchase_probability
                    + (IF interest THEN 300 ELSE 0)
                    + (IF discount THEN (500 * ps) \div One ELSE 0)
                    + (IF novelty THEN 300 ELSE 0)
                    + (IF reviews THEN 300 ELSE 0)
                    + jp
    IN  Scores(Clamp(score), Clamp(purchase))

RECURSIVE SumSeq(_)
SumSeq(s) == IF Len(s) = 0 THEN 0 ELSE Head(s) + SumSeq(Tail(s))

\* the loop of evaluate_ad_on_audience: the lists clicks and purchases
AudienceScores(ad_text, product, consumers, jitters) ==
    [i \in 1..Len(consumers) |->
        SimulateAdForConsumer(ad_text, product, consumers[i], jitters[i][1], jitters[i][2])]

\* evaluate_ad_on_audience: sum(clicks) / len(clicks), which raises ZeroDivisionError
\* for an empty list
EvaluateAdOnAudience(ad_text, product, consumers, jitters) ==
    LET scores == AudienceScores(ad_text, product, consumers, jitters)
        clicks == [i \in 1..Len(scores) |-> scores[i].click_probability]
        purchases == [i \in 1..Len(scores) |-> scores[i].purchase_probability]
    IN  IF Len(clicks) = 0 THEN Raised("ZeroDivisionError")
        ELSE Returned(Scores(SumSeq(clicks) \div Len(clicks),
                             SumSeq(purchases) \div Len(purchases)))

\* the ad texts, products and consumers the audience runs are drawn from
AudienceTexts ==
    { [keywords |-> {}, length |-> "short"],
      [keywords |-> {"skid", "novin", "reviews"}, length |-> "medium"],
      [keywords |-> Keywords, length |-> "medium"] }
AudienceConsumers ==
    { [segment |-> "Low_income_pragmatic_youth", interests |-> <<"gadzhety">>,
       behavior |-> BehaviorTags, price_sensitivity |-> One],
      [segment |-> "Premium_quality_oriented", interests |-> <<>>,
       behavior |-> {}, price_sensitivity |-> 0],
      [segment |-> "Premium_quality_oriented", interests |-> <<"gadzhety">>,
       behavior |-> {"lyubit novinki"}, price_sensitivity |-> 6000] }

\* one call of simulate_ad_for_consumer
SimulateConsumer ==
    /\ ~simCall.called /\ ~audCall.called
    /\ \E ad_text \in AdTexts, product \in SimProducts, consumer \in Consumers,
          jc \in Jitters, jp \in Jitters :
          simCall' = [called |-> TRUE, ad_text |-> ad_text, product |-> product,
                      consumer |-> consumer, jitter |-> <<jc, jp>>,
                      result |-> SimulateAdForConsumer(ad_text, product, consumer, jc, jp)]
    /\ UNCHANGED <<clientVars, audCall, pickCall, topVars, pipelineVars>>

\* one call of evaluate_ad_on_audience
EvaluateAudience ==
    /\ ~simCall.called /\ ~audCall.called
    /\ \E ad_text \in AudienceTexts, product \in SimProducts,
          consumers \in SeqsUpTo(AudienceConsumers, MaxAudience) :
          \E jitters \in [1..Len(consumers) -> Jitters \X Jitters] :
             audCall' = [called |-> TRUE, ad_text |-> ad_text, product |-> product,
                         consumers |-> consumers, jitters |-> jitters,
                         scores |-> AudienceScores(ad_text, product, consumers, jitters),
                         result |-> EvaluateAdOnAudience(ad_text, product, consumers, jitters)]
    /\ UNCHANGED <<clientVars, simCall, pickCall, topVars, pipelineVars>>

\* the response simulator
SpecSim == InitIdle /\ [][SimulateConsumer \/ EvaluateAudience]_vars

(***************************************************************************)
(* main.py: best-per-channel selection.                                    *)
(***************************************************************************)
\* the product summaries of scored ads (build_scored_ads_for_product): two
\* catalog records that carry the same name, and a third with another name
AdProducts ==
    { [name |-> "A", category |-> "audio", price |-> 1000],
      [name |-> "A", category |-> "audio", price |-> 2000],
      [name |-> "B", category |-> "audio", price |-> 1000] }

AdChannels == {"telegram", "vk"}
AdIds == {"variant 1", "variant 2"}
AdClicks == {2000, 5000}

\* a scored ad: {"product": ..., "channel": ..., "ad": ..., "evaluation": ...}
ScoredAds ==
    [product : AdProducts, channel : AdChannels, ad : AdIds,
     evaluation : [click_probability : AdClicks]]

\* key = (item["product"]["name"], item["channel"])
PickKey(item) == <<item.product.name, item.channel>>

\* no comparison: the ad seen first is kept
Replaces_Never(item, current) == FALSE

\* the comparison with >= : the later of two equal ads replaces the earlier
Replaces_OrEqual(item, current) ==
    item.evaluation.click_probability >= current.evaluation.click_probability

\* item["evaluation"]["click_probability"] > current["evaluation"]["click_probability"]
Replaces(item, current) ==
    item.evaluation.click_probability > current.evaluation.click_probability

\* best.get(key): the position of key in the dict, 0 when it is not in it
DictIndex(best, key) ==
    IF \E i \in 1..Len(best) : best[i].key = key
    THEN CHOOSE i \in 1..Len(best) : best[i].key = key
    ELSE 0

\* the loop of pick_best_per_channel; `best` is the dict as the sequence of its
\* entries in insertion order (an assignment to a key it holds keeps its place)
RECURSIVE PickLoop(_, _)
PickLoop(scored_ads, best) ==
    IF Len(scored_ads) = 0 THEN best
    ELSE LET item == Head(scored_ads)
             key == PickKey(item)
             at == DictIndex(best, key)
         IN  IF at = 0
             THEN PickLoop(Tail(scored_ads), Append(best, [key |-> key, item |-> item]))
             ELSE IF Replaces(item, best[at].item)
             THEN PickLoop(Tail(scored_ads), [best EXCEPT ![at].item = item])
             ELSE PickLoop(Tail(scored_ads), best)

\* pick_best_per_channel
PickBestPerChannel(scored_ads) == PickLoop(scored_ads, <<>>)

\* the same ads in another order: the first two swapped, the first moved to the
\* end, the list reversed; every reordering is a composition of the first two
Reorderings == {"swapped", "rotated", "reversed"}

Reordered(scored_ads, how) ==
    IF Len(scored_ads) < 2 THEN scored_ads
    ELSE CASE how = "swapped" -> <<scored_ads[2], scored_ads[1]>> \o Tail(Tail(scored_ads))
           [] how = "rotated" -> Append(Tail(scored_ads), Head(scored_ads))
           [] how = "reversed" ->
                [i \in 1..Len(scored_ads) |-> scored_ads[Len(scored_ads) + 1 - i]]

\* pick_best_per_channel called with a list of scored ads, and called with the
\* same ads in another order
PickBest ==
    /\ ~pickCall.called
    /\ \E scored_ads \in SeqsUpTo(ScoredAds, MaxAds), how \in Reorderings :
          pickCall' = [called |-> TRUE, scored_ads |-> scored_ads,
                       best |-> PickBestPerChannel(scored_ads),
                       reordered |-> Reordered(scored_ads, how),
                       best_reordered |-> PickBestPerChannel(Reordered(scored_ads, how))]
    /\ UNCHANGED <<clientVars, simVars, topVars, pipelineVars>>

\* best-ad selection
SpecPick == InitIdle /\ [][PickBest]_vars

(***************************************************************************)
(* main.py: product scoring and top-k selection.                           *)
(*                                                                         *)
(* A product is a Python dict: here a function from its keys to values.    *)
(* A value is a record [t, n, s, l]: t is its Python type ("none", "num",  *)
(* "str", "list"), n the number, s the string, l the list of strings.      *)
(* t = "nan" is the float nan, which pandas gives for an empty cell of a    *)
(* CSV catalog; the records of the model have it under margin and tags.    *)
(***************************************************************************)
None == [t |-> "none", n |-> 0, s |-> "", l |-> <<>>]
NaN == [t |-> "nan", n |-> 0, s |-> "", l |-> <<>>]
Num(n) == [t |-> "num", n |-> n, s |-> "", l |-> <<>>]
Str(s) == [t |-> "str", n |-> 0, s |-> s, l |-> <<>>]
List(l) == [t |-> "list", n |-> 0, s |-> "", l |-> l]

\* product.get(key, default)
Get(product, key, default) ==
    IF key \in DOMAIN product THEN product[key] ELSE default

\* bool(value): None, 0, "" and [] are false
IsTruthy(value) ==
    CASE value.t = "none" -> FALSE
      [] value.t = "num" -> value.n # 0
      [] value.t = "nan" -> TRUE
      [] value.t = "str" -> value.s # ""
      [] value.t = "list" -> value.l # <<>>

\* the strings float() parses, with the number each gives
NumericStrings == [s \in {"1000", "500"} |-> IF s = "1000" THEN 1000 ELSE 500]

\* float(value) of a value that is not nan: the number, or ValueError for a string
\* that is no number and TypeError for None or a list
Float(value) ==
    CASE value.t = "num" -> Returned(value.n)
      [] value.t = "str" /\ value.s \in DOMAIN NumericStrings -> Returned(NumericStrings[value.s])
      [] value.t = "str" /\ value.s \notin DOMAIN NumericStrings -> Raised("ValueError")
      [] OTHER -> Raised("TypeError")

\* float(product.get("price", 0) or 0)
PriceOf(product) ==
    LET given == Get(product, "price", Num(0))
    IN  Float(IF IsTruthy(given) THEN given ELSE Num(0))

\* _compute_margin_score, in units of 1/One: margin_percent / 80 clamped to [0, 1].
\* nan is a float, so a nan margin is taken as margin_percent: nan / 80.0 is nan,
\* min(1.0, nan) is 1.0 (nan < 1.0 is false) and max(0.0, 1.0) is 1.0.
ComputeMarginScore(product) ==
    LET price == PriceOf(product)
        market_cost == Get(product, "market_cost", None)
        margin_field == Get(product, "margin", None)
    IN  IF price.raised # "none" THEN price
        ELSE IF margin_field.t = "nan" THEN Returned(One)
        ELSE IF margin_field.t = "num"
        THEN Returned(Clamp((margin_field.n * One) \div 80))
        ELSE IF price.value > 0 /\ market_cost.t # "none"
        THEN LET cost == Float(market_cost)
             IN  IF cost.raised # "none" THEN cost
                 ELSE Returned(Clamp(((price.value - cost.value) * 100 * One)
                                        \div (price.value * 80)))
        ELSE Returned(Clamp((30 * One) \div 80))

\* the keywords `k in text` finds in a lowered string of the model
KeywordsIn(string) ==
    CASE string = "bestseller" -> {"bestseller"}
      [] string = "novinka" -> {"novinka"}
      [] string = "yarkiy dizayn" -> {"yarkiy", "dizayn"}
      [] string = "RGB podsvetka" -> {"rgb", "podsvetka"}
      [] string = "kompaktnyy" -> {"kompakt"}
      [] OTHER -> {}

\* any(k in text for k in bucket), text being the strings of `parts` joined by " "
AnyIn(bucket, parts) ==
    \E i \in 1..Len(parts) : KeywordsIn(parts[i]) \cap bucket # {}

\* tags.split(","), for the comma-joined strings of the model
SplitComma(string) ==
    CASE string = "bestseller, novinka" -> <<"bestseller", " novinka">>
      [] string = "novinka,yarkiy dizayn" -> <<"novinka", "yarkiy dizayn">>
      [] OTHER -> <<string>>

\* t.strip()
Strip(string) ==
    CASE string = " novinka" -> "novinka"
      [] OTHER -> string

\* _compute_tag_score, in units of 1/One; " ".join(tags) raises TypeError when tags
\* is truthy and neither a str nor a list of str: a number, the float nan
ComputeTagScore(product) ==
    LET given == Get(product, "tags", None)
        tags == IF ~IsTruthy(given) THEN <<>>
                ELSE IF given.t = "str"
                THEN [i \in 1..Len(SplitComma(given.s)) |-> Strip(SplitComma(given.s)[i])]
                ELSE given.l
    IN  IF IsTruthy(given) /\ given.t \in {"num", "nan"} THEN Raised("TypeError")
        ELSE Returned(Clamp(
                (IF AnyIn({"novinka", "new", "2024"}, tags) THEN 3000 ELSE 0)
              + (IF AnyIn({"yarkiy", "bright", "tsvetnoy", "dizayn"}, tags) THEN 2000 ELSE 0)
              + (IF AnyIn({"bestseller", "khit", "hit", "top"}, tags) THEN 3000 ELSE 0)))

\* str(product.get(key) or "")
StrOrEmpty(product, key) ==
    LET given == Get(product, key, None)
    IN  IF ~IsTruthy(given) THEN ""
        ELSE IF given.t = "num" THEN ToString(given.n)
        ELSE given.s

\* _compute_visual_score, in units of 1/One
ComputeVisualScore(product) ==
    LET text == <<StrOrEmpty(product, "description"), StrOrEmpty(product, "category")>>
    IN  Clamp((IF AnyIn({"rgb", "podsvetka", "amoled", "krasiv", "dizayn"}, text)
               THEN 4000 ELSE 0)
              + (IF AnyIn({"kompakt", "minimalizm", "tonkiy"}, text) THEN 2000 ELSE 0))

\* The double m * 0.5 + t * 0.3 + v * 0.2 is not always the exact decimal sum. Where
\* the decimal sum x (in units of 1/(10 * One)) lies half-way between two
\* thousandths, the side the double falls on decides round(.., 3): 1 above, -1
\* below, 0 when the double is exact. Listed for the sums the catalog records reach.
FloatTieBias(x) ==
    CASE x = 40250 -> -1     \* 0.625 * 0.5 + 0.3 * 0.3
      [] x = 39250 -> 1      \* 0.625 * 0.5 + 0.4 * 0.2
      [] x = 37750 -> 1      \* 0.375 * 0.5 + 0.5 * 0.3 + 0.2 * 0.2
      [] x = 36750 -> -1     \* 0.375 * 0.5 + 0.6 * 0.3
      [] OTHER -> 0

\* round(x, 3) of x given in units of 1/(10 * One): the result in units of 1/1000;
\* an exact tie goes to the even neighbour
Round3(x) ==
    LET q == x \div 100
        r == x % 100
    IN  IF r < 50 THEN q
        ELSE IF r > 50 THEN q + 1
        ELSE IF FloatTieBias(x) = 1 THEN q + 1
        ELSE IF FloatTieBias(x) = -1 THEN q
        ELSE IF q % 2 = 0 THEN q ELSE q + 1

\* compute_product_ad_score: round(m * 0.5 + t * 0.3 + v * 0.2, 3), in units of 1/1000
ComputeProductAdScore(product) ==
    LET m == ComputeMarginScore(product)
        t == ComputeTagScore(product)
    IN  IF m.raised # "none" THEN m
        ELSE IF t.raised # "none" THEN t
        ELSE Returned(Round3(5 * m.value + 3 * t.value + 2 * ComputeVisualScore(product)))

\* {**p, "_ad_score": score}
WithAdScore(product, score) ==
    [key \in DOMAIN product \cup {"_ad_score"} |->
        IF key = "_ad_score" THEN Num(score) ELSE product[key]]

\* the loop of select_top_products: the list `scored`, or the exception of the
\* first record whose score cannot be computed
RECURSIVE ScoreAll(_, _)
ScoreAll(catalog, scored) ==
    IF Len(catalog) = 0 THEN Returned(scored)
    ELSE LET score == ComputeProductAdScore(Head(catalog))
         IN  IF score.raised # "none" THEN score
             ELSE ScoreAll(Tail(catalog), Append(scored, WithAdScore(Head(catalog), score.value)))

\* inserting x into a list sorted by non-increasing _ad_score, before the more recent
\* of its equals
InsertDescending_BeforeEquals(sorted, x) ==
    LET before == {i \in 1..Len(sorted) : sorted[i]["_ad_score"].n > x["_ad_score"].n}
        at == Cardinality(before)
    IN  SubSeq(sorted, 1, at) \o <<x>> \o SubSeq(sorted, at + 1, Len(sorted))

\* inserting x into a list sorted by non-increasing _ad_score, after its equals
InsertDescending(sorted, x) ==
    LET before == {i \in 1..Len(sorted) : sorted[i]["_ad_score"].n >= x["_ad_score"].n}
        at == Cardinality(before)
    IN  SubSeq(sorted, 1, at) \o <<x>> \o SubSeq(sorted, at + 1, Len(sorted))

\* sorted(scored, key=lambda x: x["_ad_score"], reverse=True): a stable sort, the
\* records of equal score keep their order
RECURSIVE SortedDescending(_, _)
SortedDescending(scored, sorted) ==
    IF Len(scored) = 0 THEN sorted
    ELSE SortedDescending(Tail(scored), InsertDescending(sorted, Head(scored)))

\* select_top_products
SelectTopProducts(catalog, k) ==
    LET scored == ScoreAll(catalog, <<>>)
    IN  IF scored.raised # "none" THEN scored
        ELSE Returned(Take(SortedDescending(scored.value, <<>>), k))

\* catalog records: two with numeric fields (A: price 1000, margin 50, tag
\* bestseller; B: price 500, margin 10), a second record named "A", records with
\* malformed numeric fields, with a numeric string, with comma-joined tags
CatalogProducts ==
    { [name |-> Str("A"), price |-> Num(1000), margin |-> Num(50), tags |-> List(<<"bestseller">>)],
      [name |-> Str("B"), price |-> Num(500), margin |-> Num(10)],
      [name |-> Str("A"), price |-> Num(2000), margin |-> Num(50), tags |-> List(<<"bestseller">>)],
      [name |-> Str("C"), price |-> Str("abc"), margin |-> Num(90)],
      [name |-> Str("D"), price |-> Num(1000), market_cost |-> Num(500),
       description |-> Str("RGB podsvetka"), tags |-> None],
      [name |-> Str("E"), price |-> Num(1000), market_cost |-> Str("n/a")],
      [name |-> Str("F"), price |-> Str("1000"), margin |-> Str("high"),
       tags |-> List(<<"novinka", "yarkiy dizayn">>), category |-> Str("kompaktnyy")],
      [name |-> Str("G"), description |-> None, tags |-> Str("bestseller, novinka")] }

\* further records given to compute_product_ad_score: margins at and beyond the
\* ends of [0, 80], margins derived from price and market_cost, a price of 0, a
\* margin that is a numeric string, a margin that is nan
MarginProducts ==
    { [name |-> Str("H"), price |-> Num(1000), margin |-> NaN],
      [name |-> Str("I"), price |-> Num(100), margin |-> Num(120)],
      [name |-> Str("J"), margin |-> Num(-5)],
      [name |-> Str("K"), price |-> Num(1000), market_cost |-> Num(1500)],
      [name |-> Str("L"), price |-> Num(1000), margin |-> Num(80)],
      [name |-> Str("M"), margin |-> Num(0)],
      [name |-> Str("N"), price |-> Num(1000), margin |-> Str("50")],
      [name |-> Str("P"), price |-> Num(0), market_cost |-> Num(10)],
      [name |-> Str("Q"), price |-> Num(1000), market_cost |-> Num(200)],
      [name |-> Str("R"), price |-> Num(1000), market_cost |-> Num(500), margin |-> Num(20)] }

\* further records given to compute_product_ad_score: the same labels as a
\* comma-joined string and as a list, tags that are empty, null, absent, and what
\* pandas gives for a tags cell of a CSV catalog that is empty (nan) or holds a
\* number
TagProducts ==
    { [name |-> Str("T"), margin |-> Num(80), tags |-> given] :
        given \in { Str("bestseller, novinka"), List(<<"bestseller", "novinka">>),
                    Str("novinka,yarkiy dizayn"), List(<<"novinka", "yarkiy dizayn">>),
                    Str("bestseller"), List(<<"bestseller">>),
                    Str(""), List(<<>>), None, NaN, Num(2024) } }
        \cup { [name |-> Str("T"), margin |-> Num(80)] }

ScoreProducts == CatalogProducts \cup MarginProducts \cup TagProducts

\* one call of compute_product_ad_score
ComputeScore ==
    /\ ~scoreCall.called /\ ~topCall.called
    /\ \E product \in ScoreProducts :
          scoreCall' = [called |-> TRUE, product |-> product,
                        margin_score |-> ComputeMarginScore(product),
                        tag_score |-> ComputeTagScore(product),
                        result |-> ComputeProductAdScore(product)]
    /\ UNCHANGED <<clientVars, simVars, pickCall, topCall, pipelineVars>>

\* the catalog after the loop had it been `p["_ad_score"] = score` on each record
CatalogAfterScoring_ScoreWritten(catalog) ==
    [i \in 1..Len(catalog) |->
        IF ComputeProductAdScore(catalog[i]).raised = "none"
        THEN WithAdScore(catalog[i], ComputeProductAdScore(catalog[i]).value)
        ELSE catalog[i]]

\* the caller's list after select_top_products: the loop reads each p and appends
\* the new dict {**p, "_ad_score": ...} to `scored`; sorted() builds a new list;
\* nothing is assigned to `catalog` or to a key of p
CatalogAfterScoring(catalog) ==
    [i \in 1..Len(catalog) |-> [key \in DOMAIN catalog[i] |-> catalog[i][key]]]

\* one call of select_top_products
SelectTop ==
    /\ ~scoreCall.called /\ ~topCall.called
    /\ \E catalog \in SeqsUpTo(CatalogProducts, MaxCatalog), k \in 0..MaxK :
          topCall' = [called |-> TRUE, catalog |-> catalog, k |-> k,
                      result |-> SelectTopProducts(catalog, k),
                      catalog_after |-> CatalogAfterScoring(catalog)]
    /\ UNCHANGED <<clientVars, simVars, pickCall, scoreCall, pipelineVars>>

\* product scoring and selection
SpecTop == InitIdle /\ [][ComputeScore \/ SelectTop]_vars

(***************************************************************************)
(* main.py: generate_synthetic_consumers.                                  *)
(*                                                                         *)
(* rng is the generator of the `random` module: how it was last seeded     *)
(* ("os" at import, "42" by random.seed(42)) and how many values have been *)
(* drawn since.  After random.seed(42) the values drawn are fixed: the     *)
(* table below lists what CPython draws for the first profiles.            *)
(***************************************************************************)
\* the price_sensitivity table of generate_synthetic_consumers, in units of 1/One
PriceSensitivityOf ==
    [seg \in {"Low_income_pragmatic_youth", "Family_buyer_value_seeker",
              "Middle_income_tech_enthusiast", "Premium_quality_oriented"} |->
        CASE seg = "Low_income_pragmatic_youth" -> 9000
          [] seg = "Family_buyer_value_seeker" -> 8000
          [] seg = "Middle_income_tech_enthusiast" -> 6000
          [] seg = "Premium_quality_oriented" -> 4000]

\* random.randint(18, 45), random.choice(segments), random.sample(interests_pool, k=3)
\* and random.sample(behavior_pool, k=2) of iteration i after random.seed(42)
Seed42Draws ==
    << [age |-> 38, seg |-> "Low_income_pragmatic_youth",
        interests |-> <<"gadzhety", "kino", "muzyka">>,
        behavior |-> <<"tsenit kachestvo", "beret po aktsii">>],
       [age |-> 41, seg |-> "Low_income_pragmatic_youth",
        interests |-> <<"umnyy dom", "igry", "skidki">>,
        behavior |-> <<"reagiruet na skidki", "beret po aktsii">>],
       [age |-> 20, seg |-> "Middle_income_tech_enthusiast",
        interests |-> <<"muzyka", "umnyy dom", "gadzhety">>,
        behavior |-> <<"doveryaet otzyvam", "tsenit kachestvo">>],
       [age |-> 40, seg |-> "Premium_quality_oriented",
        interests |-> <<"muzyka", "moda", "kino">>,
        behavior |-> <<"reagiruet na skidki", "tsenit kachestvo">>],
       [age |-> 40, seg |-> "Premium_quality_oriented",
        interests |-> <<"onlayn-pokupki", "kino", "sport">>,
        behavior |-> <<"tsenit kachestvo", "ishchet balans tseny i kharakteristik">>],
       [age |-> 21, seg |-> "Low_income_pragmatic_youth",
        interests |-> <<"skidki", "igry", "onlayn-pokupki">>,
        behavior |-> <<"ishchet balans tseny i kharakteristik", "doveryaet otzyvam">>] >>

\* generate_synthetic_consumers without random.seed(42): the generator stays as
\* the code before left it
SeedRandom_Omitted(state) == state

\* random.seed(42)
SeedRandom(state) == [seed |-> "42", drawn |-> 0]

\* the four draws of iteration i, the generator having been in `state` when the
\* loop began: the table after random.seed(42), and otherwise values that follow
\* from how the generator was seeded and what was drawn from it
DrawsOfProfile(state, i) ==
    IF state.seed = "42" /\ state.drawn = 0 THEN Seed42Draws[i]
    ELSE [age |-> 18 + ((state.drawn + 7 * i) % 28),
          seg |-> <<"Family_buyer_value_seeker", "Premium_quality_oriented">>[
                        ((state.drawn + i) % 2) + 1],
          interests |-> <<"sport", "moda", "kino">>,
          behavior |-> <<"lyubit novinki", "doveryaet otzyvam">>]

\* SyntheticConsumer whose id is 1 in every iteration instead of i + 1
SyntheticConsumer_SameId(id) ==
    LET draw == DrawsOfProfile(SeedRandom(rng), id)
    IN  [id |-> 1, age |-> draw.age, interests |-> draw.interests,
         behavior |-> draw.behavior, segment |-> draw.seg,
         price_sensitivity |-> PriceSensitivityOf[draw.seg]]

\* SyntheticConsumer(id=i + 1, ...) of the loop's iteration with i + 1 = id
SyntheticConsumer(id) ==
    LET draw == DrawsOfProfile(SeedRandom(rng), id)
    IN  [id |-> id, age |-> draw.age, interests |-> draw.interests,
         behavior |-> draw.behavior, segment |-> draw.seg,
         price_sensitivity |-> PriceSensitivityOf[draw.seg]]

\* generate_synthetic_consumers: range(n) is empty for n <= 0
GenerateSyntheticConsumers(n) ==
    [i \in 1..n |-> SyntheticConsumer(i)]

\* the generator after generate_synthetic_consumers(n): seeded with 42, four
\* calls of `random` for each profile
RngAfterGenerate(n) == [seed |-> "42", drawn |-> 4 * n]

\* one call of generate_synthetic_consumers; the call before it is kept
GenerateConsumers ==
    /\ \E n \in 0..MaxGenerated :
          /\ genCall' = [called |-> TRUE, n |-> n, rng_before |-> rng,
                         result |-> GenerateSyntheticConsumers(n),
                         previous |-> IF genCall.called
                                      THEN [called |-> TRUE, n |-> genCall.n,
                                            result |-> genCall.result]
                                      ELSE NoCall]
          /\ rng' = RngAfterGenerate(n)
    /\ UNCHANGED <<clientVars, simVars, pickCall, topVars, run, appRun, analyzer>>

\* other code draws a value from `random` (a jitter, a random.choice)
RandomDraw ==
    /\ rng.drawn < MaxDrawn
    /\ rng' = [rng EXCEPT !.drawn = @ + 1]
    /\ UNCHANGED <<clientVars, simVars, pickCall, topVars, run, appRun, analyzer, genCall>>

\* the audience generator among other users of `random`
SpecAudience == InitIdle /\ [][GenerateConsumers \/ RandomDraw]_vars

(***************************************************************************)
(* main.py: client selection, variant generation for a product and a       *)
(* channel, and the scored ads of a product.                               *)
(***************************************************************************)
\* os.getenv("MISTRAL_API_KEY"): unset, empty, set
ApiKeys == {Missing, "", "sk-key"}

\* MistralClient.__init__: ValueError when the key is unset or empty
MistralClientInit(api_key) ==
    IF api_key \in {Missing, ""} THEN Raised("ValueError") ELSE Returned("MistralClient")

\* get_llm_client(use_mistral)
GetLlmClient(use_mistral, api_key) ==
    IF use_mistral THEN MistralClientInit(api_key) ELSE Returned("MockLLMClient")

\* the payload generate_variants_for_product_channel builds, as far as the clients
\* read it: product.get("name") (None prints as "None"), and the features
\* [product.get("description", ""), product.get("recommendation", "")]
PayloadOf(product, channel, n_variants) ==
    [name |-> IF Get(product, "name", None).t = "str" THEN product["name"].s ELSE "None",
     features |-> <<Get(product, "description", Str("")).s,
                    Get(product, "recommendation", Str("")).s>>,
     channel |-> channel, n_variants |-> n_variants]

\* llm_client.generate_variants(payload); `outcome` is what the remote service
\* answers when the client is the remote one
ClientGenerateVariants(llm_client, payload, outcome) ==
    IF llm_client = "MockLLMClient" THEN Returned(MockGenerateVariants(payload))
    ELSE MistralGenerateVariants(payload, outcome)

\* generate_variants_for_product_channel: the AdVariant objects as dicts
\* (v.channel or channel: the channels of the model are not empty)
GenerateVariantsForProductChannel(llm_client, product, channel, n_variants, outcome) ==
    ClientGenerateVariants(llm_client, PayloadOf(product, channel, n_variants), outcome)

\* len() of the strings the ad texts are made of (the Russian originals)
StrLen(string) ==
    CASE string = "(fire) " -> 2
      [] string = " - zaberi, poka est!" -> 21
      [] string = "Nash " -> 4
      [] string = " s " -> 3
      [] string = ". Eto novinka, kotoruyu vse zhdut. Uspey, poka tsena eshche derzhitsya! (rocket)" -> 65
      [] string = "Uspet vzyat seychas ->" -> 21
      [] string = ": Tekhnika, kotoraya raduet kazhdyy den | Otzyvy 4.9/5" -> 52
      [] string = " - vybor tekh, kto tsenit komfort i kachestvo. " -> 44
      [] string = "Osobennosti: " -> 13
      [] string = ". Posmotrite, chto govoryat drugie pokupateli! Mnogie uzhe otsenili etot variant." -> 77
      [] string = "Zakazat onlayn i poluchit skidku" -> 33
      [] string = "Vygodnaya Tsena na " -> 17
      [] string = " - Speshite!" -> 11
      [] string = ". Bystraya dostavka po RF. Garantiya 1 god. Zakazat onlayn." -> 58
      [] string = "Kupit onlayn" -> 13
      [] string = " (Variant " -> 10
      [] string = "otlichnye kharakteristiki" -> 23
      [] string = "Zagolovok ot Mistral" -> 20
      [] string = "Tekst ot Mistral" -> 16
      [] string = "RGB podsvetka" -> 13
      [] string = "Remote headline A" -> 17
      [] string = "Remote headline B" -> 17
      [] string = "Remote headline C" -> 17
      [] string = "Remote text A" -> 13
      [] string = "Remote text B" -> 13
      [] string = "Remote cta A" -> 12
      [] string = "Remote cta B" -> 12
      [] string = "Tovar" -> 5
      [] string = "None" -> 4
      [] string = "CTA" -> 3
      [] string = ", " -> 2
      [] string = "" -> 0
      [] OTHER -> 1      \* "A", "B", "C", ")", a digit

\* the keywords of evaluate_ad and simulate_ad_for_consumer found in a string
\* ("novinka" holds "novin", "Otzyvy" lowers to "otzyvy", "skidku" holds "skid")
StrKeywords(string) ==
    CASE string = ". Eto novinka, kotoruyu vse zhdut. Uspey, poka tsena eshche derzhitsya! (rocket)"
            -> {"novin"}
      [] string = ": Tekhnika, kotoraya raduet kazhdyy den | Otzyvy 4.9/5" -> {"reviews"}
      [] string = "Zakazat onlayn i poluchit skidku" -> {"skid"}
      [] string = ". Bystraya dostavka po RF. Garantiya 1 god. Zakazat onlayn." -> {"dostavka"}
      [] OTHER -> {}

RECURSIVE TextLen(_)
TextLen(text) == IF Len(text) = 0 THEN 0 ELSE StrLen(Head(text)) + TextLen(Tail(text))

\* ad_text = f"{v['headline']}\n{v['text']}\n{v['cta']}", as the simulator reads it:
\* the keywords it holds and the class of its length
AdTextOf(v) ==
    LET text == v.headline \o v.text \o v.cta
        length == TextLen(text) + 2
    IN  [keywords |-> UNION {StrKeywords(text[i]) : i \in 1..Len(text)},
         length |-> IF length < 80 THEN "short" ELSE IF length > 600 THEN "long" ELSE "medium"]

\* a consumer profile as simulate_ad_for_consumer reads it
AsSimConsumer(profile) ==
    [segment |-> profile.segment, interests |-> profile.interests,
     behavior |-> {profile.behavior[i] : i \in 1..Len(profile.behavior)},
     price_sensitivity |-> profile.price_sensitivity]

\* product_text of simulate_ad_for_consumer: the interest words in name, description
\* and category (the records of the model hold none)
AsSimProduct(product) == [words |-> {}]

\* the summary of the product in a scored ad
ProductSummary(product) ==
    [name |-> Get(product, "name", Str("")),
     category |-> Get(product, "category", Str("")),
     price |-> Get(product, "price", None)]

\* the inner loop of build_scored_ads_for_product: the scored ads of one channel, or
\* the exception of evaluate_ad_on_audience; jitters[i] is what random.uniform draws
\* for variant i (for both probabilities and every consumer)
ScoredAdsOfChannel(product, channel, variants, consumers, jitters) ==
    LET sim == [i \in 1..Len(consumers) |-> AsSimConsumer(consumers[i])]
        score(i) == EvaluateAdOnAudience(AdTextOf(variants[i]), AsSimProduct(product), sim,
                                         [c \in 1..Len(sim) |-> <<jitters[i], jitters[i]>>])
    IN  IF \E i \in 1..Len(variants) : score(i).raised # "none"
        THEN score(1)
        ELSE Returned([i \in 1..Len(variants) |->
                        [product |-> ProductSummary(product), channel |-> channel,
                         ad |-> variants[i], evaluation |-> score(i).value]])

\* the channels of build_scored_ads_for_product, in its order
ChannelOrder == <<"telegram", "vk", "yandex_ads">>

\* build_scored_ads_for_product: all_ads after the channels from `at` on, or the
\* first exception
RECURSIVE BuildScoredAdsFrom(_, _, _, _, _, _, _, _)
BuildScoredAdsFrom(at, all_ads, llm_client, product, consumers, n_variants, outcome, jitters) ==
    IF at > Len(ChannelOrder) THEN Returned(all_ads)
    ELSE LET ch == ChannelOrder[at]
             variants == GenerateVariantsForProductChannel(llm_client, product, ch,
                                                           n_variants, outcome)
         IN  IF variants.raised # "none" THEN variants
             ELSE LET scored == ScoredAdsOfChannel(product, ch, variants.value,
                                                   consumers, jitters)
                  IN  IF scored.raised # "none" THEN scored
                      ELSE BuildScoredAdsFrom(at + 1, all_ads \o scored.value, llm_client,
                                              product, consumers, n_variants, outcome, jitters)

BuildScoredAdsForProduct(llm_client, product, consumers, n_variants, outcome, jitters) ==
    BuildScoredAdsFrom(1, <<>>, llm_client, product, consumers, n_variants, outcome, jitters)

(***************************************************************************)
(* main.py: build_campaign_json, and the campaign run.                     *)
(*                                                                         *)
(* main.py defines the steps of a run but not the code that calls them.    *)
(* The run below calls them in the order of the campaign builder's state   *)
(* machine: client, top products, audience, scored ads of each top         *)
(* product, best per channel, campaign document.                           *)
(***************************************************************************)
\* build_campaign_json; n_top_products_used is len({c["product"]["name"] for c in campaigns})
BuildCampaignJson(best_items, consumers, niche, catalog_size, total_ads_generated) ==
    LET campaigns ==
            [i \in 1..Len(best_items) |->
                [product |-> best_items[i].product, channel |-> best_items[i].channel,
                 ad |-> best_items[i].ad, evaluation |-> best_items[i].evaluation,
                 targeting |-> [audience_segment |-> "Synthetic_multi_segment",
                                n_consumers |-> Len(consumers)],
                 image_recommendation |-> [status |-> "placeholder"]]]
    IN  [platform |-> "GENAI-4", niche |-> niche,
         n_products_in_catalog |-> catalog_size,
         n_top_products_used |->
            Cardinality({campaigns[i].product.name : i \in 1..Len(campaigns)}),
         n_all_ads_generated |-> total_ads_generated,
         n_best_ads_in_campaign |-> Len(campaigns),
         campaigns |-> campaigns]

\* the catalog record of the model with this name and price
Record(name, price) ==
    CHOOSE p \in CatalogProducts : p["name"] = Str(name) /\ Get(p, "price", None) = price

\* the catalogs of the runs: empty, A and B of the end-to-end scenario in both
\* orders, two and three records that share the name "A" and have one score, a
\* record whose price is no number
RunCatalogs ==
    { <<>>,
      <<Record("A", Num(1000))>>,
      <<Record("A", Num(1000)), Record("B", Num(500))>>,
      <<Record("B", Num(500)), Record("A", Num(1000))>>,
      <<Record("A", Num(1000)), Record("A", Num(2000))>>,
      <<Record("B", Num(500)), Record("A", Num(2000)), Record("A", Num(1000))>>,
      <<Record("A", Num(1000)), Record("A", Num(2000)), Record("A", Num(1000))>>,
      <<Record("A", Num(1000)), Record("C", Str("abc"))>> }

\* what the remote service answers during a run: a failed connection, an array of
\* one variant, a body without "choices"
RunOutcomes ==
    { Outcome("connection_error", NA, NA, NA, NA, <<>>),
      Outcome("ok", "ok", "json", "object", "array",
              <<[dict |-> TRUE, channel |-> "vk", headline |-> "Remote headline A",
                 text |-> "Remote text A", cta |-> "Remote cta A", notes |-> "Remote notes A"]>>),
      Outcome("ok", "no_choices", NA, NA, NA, <<>>) }

\* the size of the audience of a run
RunAudienceSize == 2

\* a run that has not produced this part yet
Nothing == <<>>

\* the run starts: its inputs are the catalog, k, the variants per channel, the
\* choice of the client and the environment
RunStart ==
    /\ ~run.called
    /\ \E catalog \in RunCatalogs, k \in 0..MaxK, n_variants \in 0..MaxRunVariants,
          use_mistral \in BOOLEAN, api_key \in ApiKeys,
          outcome \in RunOutcomes :
          \E jitters \in [1..n_variants -> Jitters] :
             \* the answers of the service tell runs of the remote client apart only
             /\ (use_mistral /\ api_key = "sk-key") \/ outcome.net # "ok"
             /\ run' = [called |-> TRUE, stage |-> "INIT", error |-> "none",
                        catalog |-> catalog, k |-> k, n_variants |-> n_variants,
                        use_mistral |-> use_mistral, api_key |-> api_key,
                        outcome |-> outcome, jitters |-> jitters,
                        llm_client |-> "", clients_selected |-> 0,
                        top |-> Nothing, consumers |-> Nothing,
                        all_ads |-> Nothing, products_done |-> 0, ads_of |-> Nothing,
                        best |-> Nothing, document |-> Nothing]
    /\ UNCHANGED <<clientVars, simVars, pickCall, topVars, appRun, analyzer, genCall, rng>>

\* a step of the run raised: the run ends with the exception
Failed(exception) == [run EXCEPT !.stage = "FAILED", !.error = exception]

\* llm_client = get_llm_client(use_mistral)
RunGetClient ==
    /\ run.called /\ run.stage = "INIT"
    /\ LET client == GetLlmClient(run.use_mistral, run.api_key)
       IN  run' = IF client.raised # "none"
                  THEN [Failed(client.raised) EXCEPT !.clients_selected = @ + 1]
                  ELSE [run EXCEPT !.stage = "CLIENT_READY", !.llm_client = client.value,
                                   !.clients_selected = @ + 1]
    /\ UNCHANGED <<clientVars, simVars, pickCall, topVars, appRun, analyzer, genCall, rng>>

\* top_products = select_top_products(catalog, k)
RunSelectTop ==
    /\ run.called /\ run.stage = "CLIENT_READY"
    /\ LET top == SelectTopProducts(run.catalog, run.k)
       IN  run' = IF top.raised # "none" THEN Failed(top.raised)
                  ELSE [run EXCEPT !.stage = "SCORED", !.top = top.value]
    /\ UNCHANGED <<clientVars, simVars, pickCall, topVars, appRun, analyzer, genCall, rng>>

\* consumers = generate_synthetic_consumers(n)
RunGenerateAudience ==
    /\ run.called /\ run.stage = "SCORED"
    /\ run' = [run EXCEPT !.stage = "AUDIENCE_READY",
                          !.consumers = GenerateSyntheticConsumers(RunAudienceSize)]
    /\ rng' = RngAfterGenerate(RunAudienceSize)
    /\ UNCHANGED <<clientVars, simVars, pickCall, topVars, appRun, analyzer, genCall>>

\* all_ads.extend(build_scored_ads_for_product(llm_client, product, ...)) for the
\* next top product
RunBuildScoredAds ==
    /\ run.called /\ run.stage \in {"AUDIENCE_READY", "GENERATING"}
    /\ run.products_done < Len(run.top)
    /\ LET ads == BuildScoredAdsForProduct(run.llm_client, run.top[run.products_done + 1],
                                           run.consumers, run.n_variants, run.outcome,
                                           run.jitters)
       IN  run' = IF ads.raised # "none" THEN Failed(ads.raised)
                  ELSE [run EXCEPT !.stage = "GENERATING",
                                   !.all_ads = @ \o ads.value,
                                   !.ads_of = Append(@, ads.value),
                                   !.products_done = @ + 1]
    /\ UNCHANGED <<clientVars, simVars, pickCall, topVars, appRun, analyzer, genCall, rng>>

\* best = pick_best_per_channel(all_ads), once every top product has its ads
RunPickBest ==
    /\ run.called /\ run.stage \in {"AUDIENCE_READY", "GENERATING"}
    /\ run.products_done = Len(run.top)
    /\ run' = [run EXCEPT !.stage = "SELECTED", !.best = PickBestPerChannel(run.all_ads)]
    /\ UNCHANGED <<clientVars, simVars, pickCall, topVars, appRun, analyzer, genCall, rng>>

\* build_campaign_json(list(best.values()), consumers, niche, len(catalog), len(all_ads))
RunBuildCampaign ==
    /\ run.called /\ run.stage = "SELECTED"
    /\ run' = [run EXCEPT
                 !.stage = "ASSEMBLED",
                 !.document = BuildCampaignJson([i \in 1..Len(run.best) |-> run.best[i].item],
                                                run.consumers, "elektronika",
                                                Len(run.catalog), Len(run.all_ads))]
    /\ UNCHANGED <<clientVars, simVars, pickCall, topVars, appRun, analyzer, genCall, rng>>

\* the campaign run
SpecRun ==
    InitIdle /\ [][RunStart \/ RunGetClient \/ RunSelectTop \/ RunGenerateAudience
                     \/ RunBuildScoredAds \/ RunPickBest \/ RunBuildCampaign]_vars

(***************************************************************************)
(* app.py: the variant generators, score_ad_variant, the best variant of   *)
(* each channel, and the pipeline of the page.  Ad scores are in units of  *)
(* 1/1000, as _ad_score is.  A draw is what one rerun takes from `random`: *)
(* the headline, the ending and the cta chosen, and the jitter of the      *)
(* score (random.uniform(-0.01, 0.01), in units of 1/1000).                *)
(***************************************************************************)
\* the keywords of the tags a generator looks for in tags_text.lower()
TagWords(product) ==
    LET tags == Get(product, "tags", None)
        parts == IF ~IsTruthy(tags) THEN <<>>
                 ELSE IF tags.t = "list" THEN tags.l ELSE SplitComma(tags.s)
    IN  UNION {KeywordsIn(Strip(parts[i])) : i \in 1..Len(parts)}

\* f"... {int(price)} ..." when `if price:` holds
PriceText(product, before, after) ==
    LET price == Get(product, "price", None)
    IN  IF IsTruthy(price) /\ price.t = "num" THEN <<before, ToString(price.n), after>>
        ELSE <<>>

\* generate_telegram_variants / generate_vk_variants / generate_yandex_variants with
\* n_variants = 1: the one variant, given what the rerun draws
AppVariant(channel, product, draw) ==
    LET name == Get(product, "name", Str("tovar")).s
        desc == Get(product, "description", Str("")).s
        tags == TagWords(product)
        notes == <<channel, ", trends">>
    IN  IF channel = "telegram" THEN
            [channel |-> "telegram",
             headline |-> <<name, <<" - zaberi, poka est", ": novinka dlya tebya",
                                    " - tekhnika bez lishnego shuma">>[draw.headline]>>,
             text |-> (IF desc # "" THEN <<name, " - ", desc>> ELSE <<name>>)
                      \o PriceText(product, " Seychas okolo ", " rub.")
                      \o (IF "novinka" \in tags
                          THEN <<" Svezhiy reliz, poka malo u kogo est.">> ELSE <<>>)
                      \o (IF tags \cap {"bestseller", "khit", "hit"} # {}
                          THEN <<" Uzhe stal khitom u pokupateley.">> ELSE <<>>)
                      \o << <<" Uspey, poka tsena eshche derzhitsya (fire)",
                              " Poka est v nalichii - luchshee vremya zabrat.",
                              " Kolichestvo ogranicheno, ne otkladyvay.">>[draw.ending] >>,
             cta |-> << <<"Uspet vzyat seychas", "Pereyti k pokupke">>[draw.cta] >>,
             notes |-> notes]
        ELSE IF channel = "vk" THEN
            [channel |-> "vk",
             headline |-> <<name, <<": tekhnika, kotoraya raduet kazhdyy den",
                                    " - vybor tekh, kto tsenit kachestvo",
                                    " dlya doma i raboty">>[draw.headline]>>,
             text |-> <<name, " - dlya tekh, kto khochet poluchat maksimum ot tekhniki. ",
                        desc, " ">>
                      \o PriceText(product, "Seychas dostupno primerno za ", " rub. ")
                      \o (IF "bestseller" \in tags
                          THEN <<"Odin iz samykh populyarnykh tovarov u nashikh klientov. ">>
                          ELSE <<>>)
                      \o (IF "novinka" \in tags
                          THEN <<"Novaya model, kotoraya tolko poyavilas v prodazhe. ">>
                          ELSE <<>>)
                      \o <<"Oformlyayte zakaz onlayn - dostavka i garantiya vklyucheny.">>,
             cta |-> <<"Zakazat onlayn">>,
             notes |-> notes]
        ELSE
            [channel |-> "yandex_ads",
             headline |-> <<name, <<" so skidkoy", " - vygodnaya tsena",
                                    " s bystroy dostavkoy">>[draw.headline]>>,
             text |-> (IF desc # "" THEN <<desc>> ELSE <<>>)
                      \o PriceText(product, "Tsena okolo ", " rub. Bystraya dostavka."),
             cta |-> <<"Kupit onlayn">>,
             notes |-> notes]

\* what score_ad_variant finds in a string of a headline or a text: FOMO words,
\* "skid", novelty words, bestseller words
AdSignals(string) ==
    CASE string \in {" - zaberi, poka est", " Uspey, poka tsena eshche derzhitsya (fire)",
                     " Poka est v nalichii - luchshee vremya zabrat.",
                     " Kolichestvo ogranicheno, ne otkladyvay."} -> {"fomo"}
      [] string = " so skidkoy" -> {"skid"}
      [] string \in {": novinka dlya tebya", " Svezhiy reliz, poka malo u kogo est.",
                     "Novaya model, kotoraya tolko poyavilas v prodazhe. "} -> {"nov"}
      [] OTHER -> {}

\* score_ad_variant: round(max(0.0, min(1.0, score)), 3)
ScoreAdVariant(ad, product, jitter) ==
    LET text_all == ad.headline \o ad.text
        found == UNION {AdSignals(text_all[i]) : i \in 1..Len(text_all)}
        score == Get(product, "_ad_score", Num(500)).n
                    + (IF "fomo" \in found THEN 150 ELSE 0)
                    + (IF "skid" \in found THEN 120 ELSE 0)
                    + (IF "nov" \in found THEN 80 ELSE 0)
                    + (IF "hit" \in found THEN 80 ELSE 0)
                    + (IF ad.channel = "telegram" THEN 30 ELSE 0)
                    + (IF ad.channel = "yandex_ads" THEN 40 ELSE 0)
                    + jitter
    IN  Max(0, Min(1000, score))

\* the loop of generate_best_for_channel after the reruns from `at` on: the best
\* variant and its score so far
RECURSIVE BestOfReruns(_, _, _, _, _)
BestOfReruns(product, channel, draws, at, best) ==
    IF at > Len(draws) THEN best
    ELSE LET variant == AppVariant(channel, product, draws[at])
             s == ScoreAdVariant(variant, product, draws[at].jitter)
         IN  BestOfReruns(product, channel, draws, at + 1,
                          IF s > best.score
                          THEN [variant |-> variant, score |-> s, rerun |-> at]
                          ELSE best)

\* generate_best_for_channel that returns the variant of the last rerun
GenerateBestForChannel_LastRerun(product, channel, draws) ==
    LET variant == AppVariant(channel, product, draws[Len(draws)])
    IN  IF channel \notin Channels THEN Raised("ValueError")
        ELSE IF Len(draws) = 0 THEN Raised("TypeError")
        ELSE Returned([ad |-> variant,
                       internal_score |-> ScoreAdVariant(variant, product,
                                                         draws[Len(draws)].jitter),
                       rerun |-> Len(draws)])

\* generate_best_for_channel: with no rerun best_variant stays None and
\* best_variant["_internal_score"] = ... raises TypeError
GenerateBestForChannel(product, channel, draws) ==
    LET best == BestOfReruns(product, channel, draws, 1,
                             [variant |-> Nothing, score |-> -1, rerun |-> 0])
    IN  IF channel \notin Channels THEN Raised("ValueError")
        ELSE IF best.rerun = 0 THEN Raised("TypeError")
        ELSE Returned([ad |-> best.variant, internal_score |-> best.score,
                       rerun |-> best.rerun])

\* generate_best_variants_for_product: the best variant of telegram, vk and
\* yandex_ads, in this order, or the first exception
GenerateBestVariantsForProduct(product, draws) ==
    LET best == [c \in 1..Len(ChannelOrder) |->
                    GenerateBestForChannel(product, ChannelOrder[c], draws)]
    IN  IF \E c \in 1..Len(best) : best[c].raised # "none"
        THEN best[CHOOSE c \in 1..Len(best) :
                    /\ best[c].raised # "none"
                    /\ \A d \in 1..(c - 1) : best[d].raised = "none"]
        ELSE Returned([c \in 1..Len(best) |->
                        [product |-> product, ad |-> best[c].value.ad,
                         score |-> best[c].value.internal_score,
                         rerun |-> best[c].value.rerun]])

\* sorted(all_variants, key=lambda x: x["score"], reverse=True) as the positions in
\* all_variants: position i goes behind the positions already placed whose score
\* is not smaller, so equal scores keep their order
RECURSIVE SortedByScore(_, _, _)
SortedByScore(all_variants, at, sorted) ==
    IF at > Len(all_variants) THEN sorted
    ELSE LET before == Cardinality({j \in 1..Len(sorted) :
                            all_variants[sorted[j]].score >= all_variants[at].score})
         IN  SortedByScore(all_variants, at + 1,
                           SubSeq(sorted, 1, before) \o <<at>>
                              \o SubSeq(sorted, before + 1, Len(sorted)))

\* the first two items of all_variants instead of the two of the highest score
BestTwo_FirstTwo(all_variants) == Take([i \in 1..Len(all_variants) |-> i], 2)

\* best_two = sorted(...)[:2]; an item is known by its position in all_variants, as
\* id(item) tells the items apart
BestTwo(all_variants) == Take(SortedByScore(all_variants, 1, <<>>), 2)

\* campaigns_all and final_json
FinalJson(catalog, top_products, all_variants) ==
    LET best_two == BestTwo(all_variants)
        best_ids == {best_two[i] : i \in 1..Len(best_two)}
        campaigns_all ==
            [i \in 1..Len(all_variants) |->
                [product |-> ProductSummary(all_variants[i].product),
                 channel |-> all_variants[i].ad.channel,
                 ad |-> all_variants[i].ad,
                 internal_score |-> all_variants[i].score,
                 is_sample_example |-> i \in best_ids]]
    IN  [platform |-> "GENAI-4", niche |-> "elektronika",
         n_products_in_catalog |-> Len(catalog),
         n_top_products_used |-> Len(top_products),
         n_all_ads |-> Len(campaigns_all),
         n_example_ads_shown |-> Len(best_two),
         campaigns |-> campaigns_all]

\* reruns=5 of the pipeline's calls of generate_best_variants_for_product
Reruns == 5

\* what the reruns of one product draw: the same every time; a different headline,
\* ending, cta and jitter in each rerun; a jitter that falls from rerun to rerun
RerunDraws ==
    { [i \in 1..Reruns |-> [headline |-> 1, ending |-> 1, cta |-> 1, jitter |-> 0]],
      [i \in 1..Reruns |-> [headline |-> (i % 3) + 1, ending |-> ((i + 1) % 3) + 1,
                            cta |-> (i % 2) + 1, jitter |-> ((i % 3) - 1) * 10]],
      [i \in 1..Reruns |-> [headline |-> 3, ending |-> 2, cta |-> 2, jitter |-> 5 - 3 * i]] }

\* as StageAfterLoad without `if not catalog: ... st.stop()`
StageAfterLoad_NoEmptyCheck(uploaded, catalog) ==
    IF ~uploaded THEN "STOPPED" ELSE "LOADED"

\* where the script is after `if not uploaded_file` and `if not catalog`: st.stop()
\* ends it
StageAfterLoad(uploaded, catalog) ==
    IF ~uploaded THEN "STOPPED"
    ELSE IF catalog = <<>> THEN "STOPPED"
    ELSE "LOADED"

\* the page is run: without an uploaded file it shows a hint and stops; an empty
\* catalog is reported with st.error and the script stops
AppLoadCatalog ==
    /\ ~appRun.called
    /\ \E uploaded \in BOOLEAN, catalog \in RunCatalogs :
          /\ uploaded \/ catalog = <<>>
          /\ appRun' = [called |-> TRUE,
                        stage |-> StageAfterLoad(uploaded, catalog),
                        message |-> IF ~uploaded THEN "info: upload a catalog"
                                    ELSE IF catalog = <<>> THEN "error: catalog not read"
                                    ELSE "none",
                        error |-> "none", uploaded |-> uploaded, catalog |-> catalog,
                        select_top_calls |-> 0, generator_calls |-> 0,
                        top_products |-> Nothing, products_done |-> 0,
                        draws |-> Nothing,
                        all_variants |-> Nothing, final_json |-> Nothing]
    /\ UNCHANGED <<clientVars, simVars, pickCall, topVars, run, analyzer, genCall, rng>>

\* top_products = select_top_products(catalog, k=3)
AppSelectTop ==
    /\ appRun.called /\ appRun.stage = "LOADED"
    /\ LET top == SelectTopProducts(appRun.catalog, 3)
       IN  appRun' = IF top.raised # "none"
                     THEN [appRun EXCEPT !.stage = "FAILED", !.error = top.raised,
                                         !.select_top_calls = @ + 1]
                     ELSE [appRun EXCEPT !.stage = "SCORED", !.top_products = top.value,
                                         !.select_top_calls = @ + 1]
    /\ UNCHANGED <<clientVars, simVars, pickCall, topVars, run, analyzer, genCall, rng>>

\* one round of `for product in top_products`
AppGenerateBest ==
    /\ appRun.called /\ appRun.stage \in {"SCORED", "GENERATING"}
    /\ appRun.products_done < Len(appRun.top_products)
    /\ \E draws \in RerunDraws :
          LET best == GenerateBestVariantsForProduct(
                          appRun.top_products[appRun.products_done + 1], draws)
          IN  appRun' = IF best.raised # "none"
                        THEN [appRun EXCEPT !.stage = "FAILED", !.error = best.raised]
                        ELSE [appRun EXCEPT !.stage = "GENERATING",
                                            !.all_variants = @ \o best.value,
                                            !.draws = Append(@, draws),
                                            !.generator_calls = @ + 3 * Len(draws),
                                            !.products_done = @ + 1]
    /\ rng' = [rng EXCEPT !.drawn = Min(MaxDrawn, @ + 1)]
    /\ UNCHANGED <<clientVars, simVars, pickCall, topVars, run, analyzer, genCall>>

\* best_two, campaigns_all and final_json, after the loop
AppAssemble ==
    /\ appRun.called /\ appRun.stage \in {"SCORED", "GENERATING"}
    /\ appRun.products_done = Len(appRun.top_products)
    /\ appRun' = [appRun EXCEPT
                    !.stage = "ASSEMBLED",
                    !.final_json = FinalJson(appRun.catalog, appRun.top_products,
                                             appRun.all_variants)]
    /\ UNCHANGED <<clientVars, simVars, pickCall, topVars, run, analyzer, genCall, rng>>

\* the pipeline of app.py
SpecApp == InitIdle /\ [][AppLoadCatalog \/ AppSelectTop \/ AppGenerateBest \/ AppAssemble]_vars

(***************************************************************************)
(* productAnalyzer.py: ProductAnalyzer.run and its demand queries.         *)
(*                                                                         *)
(* run creates one get_trend_info coroutine per product and awaits them     *)
(* with asyncio.gather: the queries complete in any order, and gather gives *)
(* their results in the order of the tasks, or raises the first exception. *)
(* Scores are in units of 1/1000.  The embedding score of a product is the *)
(* output of the SentenceTransformer model, here a value per product.       *)
(***************************************************************************)
\* what one request to the demand service gives: an error status, a failed
\* connection, a timeout of 10 s, or a 200 response with a JSON body: {}, a body
\* with other keys only, an empty topRequests, one item, two items, an item
\* without "count"
QueryOutcomes ==
    { [net |-> "ok", status |-> 500, keys |-> {}, topRequests |-> <<>>],
      [net |-> "connection_error", status |-> 0, keys |-> {}, topRequests |-> <<>>],
      [net |-> "timeout", status |-> 0, keys |-> {}, topRequests |-> <<>>],
      [net |-> "ok", status |-> 200, keys |-> {}, topRequests |-> <<>>],
      [net |-> "ok", status |-> 200, keys |-> {"error"}, topRequests |-> <<>>],
      [net |-> "ok", status |-> 200, keys |-> {"topRequests"}, topRequests |-> <<>>],
      [net |-> "ok", status |-> 200, keys |-> {"topRequests"},
       topRequests |-> <<[count |-> 100]>>],
      [net |-> "ok", status |-> 200, keys |-> {"topRequests"},
       topRequests |-> <<[count |-> 1000], [count |-> 100]>>],
      [net |-> "ok", status |-> 200, keys |-> {"topRequests"},
       topRequests |-> <<[phrase |-> "x"]>>] }

\* what the stub of get_trend_info draws with random.random() > 0.5
StubOutcomes ==
    { [net |-> "stub", status |-> 0, keys |-> {"topRequests"},
       topRequests |-> <<[count |-> c]>>] : c \in {1000, 100} }

\* get_trend_info with every exception of the request passed on to the caller
GetTrendInfo_Reraises(token, random_bound, outcome) ==
    IF ~token THEN
        IF random_bound THEN Returned([keys |-> outcome.keys, topRequests |-> outcome.topRequests])
        ELSE Raised("NameError")
    ELSE IF outcome.net # "ok" THEN Raised("ConnectError")
    ELSE IF outcome.status >= 400 THEN Raised("HTTPStatusError")
    ELSE Returned([keys |-> outcome.keys, topRequests |-> outcome.topRequests])

\* get_trend_info: the parsed body, or None (here <<>>) after an HTTPStatusError
\* or any other Exception of the request; without OAUTH_TOKEN the stub, whose
\* `random` is bound only when the module runs as a script
GetTrendInfo(token, random_bound, outcome) ==
    IF ~token THEN
        IF random_bound THEN Returned([keys |-> outcome.keys, topRequests |-> outcome.topRequests])
        ELSE Raised("NameError")
    ELSE IF outcome.net # "ok" THEN Returned(Nothing)
    ELSE IF outcome.status >= 400 THEN Returned(Nothing)
    ELSE Returned([keys |-> outcome.keys, topRequests |-> outcome.topRequests])

\* total_trend of one product: the sum of item.get('count', 0) when json_data is
\* truthy and has 'topRequests', else 0
RECURSIVE SumCounts(_)
SumCounts(items) ==
    IF items = <<>> THEN 0
    ELSE (IF "count" \in DOMAIN Head(items) THEN Head(items).count ELSE 0)
            + SumCounts(Tail(items))

TotalTrend(json_data) ==
    IF json_data = Nothing \/ json_data.keys = {} THEN 0
    ELSE IF "topRequests" \in json_data.keys THEN SumCounts(json_data.topRequests)
    ELSE 0

\* math.log1p(total_trend) * 2.5 for the totals the outcomes give
TrendScore(total_trend) ==
    CASE total_trend = 0 -> 0
      [] total_trend = 100 -> 11538
      [] total_trend = 1000 -> 17272
      [] total_trend = 1100 -> 17510

\* the records of products.json: with price and market_cost, without them, with a
\* cost above the price
AnalyzerProducts ==
    [ Lamp |-> [name |-> Str("Lamp"), price |-> Num(1000), market_cost |-> Num(500)],
      Mouse |-> [name |-> Str("Mouse"), price |-> Num(2000), market_cost |-> Num(1500)],
      Cable |-> [name |-> Str("Cable")],
      Hub |-> [name |-> Str("Hub"), price |-> Num(1000), market_cost |-> Num(1500)] ]

AnalyzerCatalogs ==
    { <<AnalyzerProducts.Lamp>>,
      <<AnalyzerProducts.Lamp, AnalyzerProducts.Mouse>>,
      <<AnalyzerProducts.Mouse, AnalyzerProducts.Cable, AnalyzerProducts.Lamp>>,
      <<AnalyzerProducts.Hub, AnalyzerProducts.Lamp, AnalyzerProducts.Cable,
        AnalyzerProducts.Mouse>> }

\* m_score of a product: the mean of the three _get_score values of its embedding
SemanticScore(p) ==
    CASE p["name"].s = "Lamp" -> 12000
      [] p["name"].s = "Mouse" -> 8000
      [] p["name"].s = "Cable" -> 5000
      [] p["name"].s = "Hub" -> 9500

\* one round of `for i, p in enumerate(products)`: the entry appended to processed
Processed(p, json_data) ==
    LET total_trend == TotalTrend(json_data)
        margin == IF "price" \in DOMAIN p /\ "market_cost" \in DOMAIN p /\ p["price"].n > 0
                  THEN ((p["price"].n - p["market_cost"].n) * 100000) \div p["price"].n
                  ELSE 0
        final == (SemanticScore(p) * 3) \div 2 + (margin * 2) \div 5 + TrendScore(total_trend)
    IN  [product |-> p, _temp_trend |-> total_trend, _temp_margin |-> margin,
         _temp_final |-> final]

\* top3_raw and final_output: the three entries of the highest _temp_final, each
\* without its keys that start with '_' and with its recommendation
FinalOutput(processed) ==
    LET order == Take(SortedByScore([i \in 1..Len(processed) |->
                                        [score |-> processed[i]._temp_final]], 1, <<>>), 3)
    IN  [j \in 1..Len(order) |->
            LET item == processed[order[j]]
            IN  [product |-> item.product,
                 recommendation |->
                    [attractiveness |-> (item._temp_final + 50) \div 100,
                     demand |-> item._temp_trend,
                     margin |-> IF item._temp_margin >= 0 THEN item._temp_margin \div 1000
                                ELSE -((-item._temp_margin) \div 1000)]]]

\* run up to asyncio.gather: the file is read and one query per product is started;
\* a missing file ends the run
AnalyzerStart ==
    /\ ~analyzer.called
    /\ \E file_found \in BOOLEAN, products \in AnalyzerCatalogs,
          token \in BOOLEAN, random_bound \in BOOLEAN :
          /\ token => random_bound
          /\ analyzer' = [called |-> TRUE,
                          stage |-> IF file_found THEN "QUERYING" ELSE "NO_FILE",
                          error |-> "none", token |-> token, random_bound |-> random_bound,
                          products |-> IF file_found THEN products ELSE Nothing,
                          outcomes |-> Nothing, results |-> Nothing, completion |-> Nothing,
                          api_responses |-> Nothing, processed |-> Nothing,
                          final_output |-> Nothing]
    /\ UNCHANGED <<clientVars, simVars, pickCall, topVars, run, appRun, genCall, rng>>

\* the query of one product completes, in any order among the pending ones
QueryCompletes ==
    /\ analyzer.called /\ analyzer.stage = "QUERYING"
    /\ \E i \in 1..Len(analyzer.products) :
          /\ \A j \in 1..Len(analyzer.completion) : analyzer.completion[j] # i
          /\ \E outcome \in (IF analyzer.token THEN QueryOutcomes ELSE StubOutcomes) :
                analyzer' = [analyzer EXCEPT
                                !.completion = Append(@, i),
                                !.outcomes = Append(@, outcome),
                                !.results = Append(@, GetTrendInfo(analyzer.token,
                                                        analyzer.random_bound, outcome))]
    /\ UNCHANGED <<clientVars, simVars, pickCall, topVars, run, appRun, genCall, rng>>

\* the i-th result to arrive instead of the result of the i-th task
ResultOf_InCompletionOrder(i) == analyzer.results[i]

\* the result of the query of product i, once it has completed
ResultOf(i) ==
    analyzer.results[CHOOSE j \in 1..Len(analyzer.completion) : analyzer.completion[j] = i]

\* gather returns and run goes on to its end: api_responses in the order of the
\* tasks, the scoring loop, the top three, best_products.json; or gather raises
\* the exception of a query as soon as there is one
AnalyzerResumes ==
    /\ analyzer.called /\ analyzer.stage = "QUERYING"
    /\ LET raised == {j \in 1..Len(analyzer.results) : analyzer.results[j].raised # "none"}
       IN  IF raised # {}
           THEN analyzer' = [analyzer EXCEPT
                                !.stage = "ABORTED",
                                !.error = analyzer.results[
                                            CHOOSE j \in raised : \A h \in raised : j <= h].raised]
           ELSE /\ Len(analyzer.completion) = Len(analyzer.products)
                /\ LET api_responses == [i \in 1..Len(analyzer.products) |-> ResultOf(i).value]
                       processed == [i \in 1..Len(analyzer.products) |->
                                        Processed(analyzer.products[i], api_responses[i])]
                   IN  analyzer' = [analyzer EXCEPT
                                        !.stage = "SAVED",
                                        !.api_responses = api_responses,
                                        !.processed = processed,
                                        !.final_output = FinalOutput(processed)]
    /\ UNCHANGED <<clientVars, simVars, pickCall, topVars, run, appRun, genCall, rng>>

\* ProductAnalyzer.run
SpecAnalyzer == InitIdle /\ [][AnalyzerStart \/ QueryCompletes \/ AnalyzerResumes]_vars

(***************************************************************************)
(* Claims about the remote client (SpecMistral).                           *)
(***************************************************************************)
\* the number of variants the remote service returned: the length of its
\* "variants" array, 0 when it sent none
RemoteCount(outcome) == Len(outcome.items)

\* the answer is a "variants" array whose elements are all objects
WellFormed(outcome) ==
    /\ outcome.net = "ok"
    /\ outcome.variants = "array"
    /\ \A i \in 1..Len(outcome.items) : outcome.items[i].dict

\* C1: when the remote call fails at the network level (connection error, HTTP
\* error status, timeout), generate_variants raises nothing and returns exactly
\* n_variants variants, the ones MockLLMClient produces for the same payload.
C1_NetworkFailureFallsBackToMock ==
    (mistralCall.called /\ mistralCall.outcome.net \in NetworkFailures) =>
        /\ mistralCall.result.raised = "none"
        /\ Len(mistralCall.result.value) = mistralCall.payload.n_variants
        /\ mistralCall.result.value = MockGenerateVariants(mistralCall.payload)

C1_Witness ==
    /\ mistralCall.called
    /\ mistralCall.outcome.net = "timeout"
    /\ mistralCall.payload.n_variants = 3
    /\ mistralCall.result.raised = "none"
    /\ Len(mistralCall.result.value) = 3

\* C2: every answer that arrives without a network error but is not a well-formed
\* result (content that is not JSON, no `variants` key, `variants` of the wrong
\* type, an envelope without choices/message/content) is treated as zero remote
\* variants: generate_variants raises nothing and returns the n_variants variants
\* of the mock client.
C2_MalformedAnswerFallsBackToMock ==
    (mistralCall.called /\ mistralCall.outcome.net = "ok" /\ ~WellFormed(mistralCall.outcome)) =>
        /\ mistralCall.result.raised = "none"
        /\ mistralCall.result.value = MockGenerateVariants(mistralCall.payload)

\* C3: when the remote service returns m well-formed variants, 0 <= m < n_variants,
\* generate_variants returns exactly n_variants variants: the m remote ones first,
\* in the order returned, then n_variants - m mock variants.
C3_ShortAnswerIsPadded ==
    LET c == mistralCall
        m == RemoteCount(c.outcome)
        n == c.payload.n_variants
    IN  (c.called /\ WellFormed(c.outcome) /\ m < n) =>
            /\ c.result.raised = "none"
            /\ Len(c.result.value) = n
            /\ \A i \in 1..m :
                  c.result.value[i] = AdVariantFromData(c.outcome.items[i], c.payload.channel)
            /\ \A j \in 1..(n - m) :
                  c.result.value[m + j] = MockGenerateVariants(c.payload)[j]

C3_Witness ==
    /\ mistralCall.called
    /\ WellFormed(mistralCall.outcome)
    /\ RemoteCount(mistralCall.outcome) = 2
    /\ mistralCall.outcome.items[1] # mistralCall.outcome.items[2]
    /\ mistralCall.payload.n_variants = 3
    /\ Len(mistralCall.result.value) = 3

\* C4 as stated: the caller is never handed fewer variants than the remote
\* service returned.
C4_NeverFewerThanRemote ==
    (mistralCall.called /\ mistralCall.result.raised = "none") =>
        Len(mistralCall.result.value) >= RemoteCount(mistralCall.outcome)

\* C4 as amended: a list generate_variants returns is never shorter than the
\* smaller of the remote count and n_variants (the answer is cut at n_variants).
C4_NeverFewerThanRemoteUpToRequest ==
    (mistralCall.called /\ mistralCall.result.raised = "none") =>
        Len(mistralCall.result.value)
            >= Min(RemoteCount(mistralCall.outcome), mistralCall.payload.n_variants)

C4_Witness ==
    /\ mistralCall.called
    /\ WellFormed(mistralCall.outcome)
    /\ RemoteCount(mistralCall.outcome) = 3
    /\ mistralCall.payload.n_variants = 2
    /\ mistralCall.result.raised = "none"
    /\ Len(mistralCall.result.value) = 2

(***************************************************************************)
(* Claims about the mock client (SpecMock).                                *)
(***************************************************************************)
IsAdVariant(v) == DOMAIN v = {"channel", "headline", "text", "cta", "notes"}

\* C5: for every payload with a product, a channel and n_variants = n >= 0 the mock
\* succeeds without a network call and returns exactly n AdVariants, each on the
\* requested channel when that is telegram, vk or yandex_ads; a second call with
\* the same payload returns the same list.
C5_MockReturnsExactlyN ==
    mockCall.called =>
        /\ mockCall.result.raised = "none"
        /\ mockCall.network_calls = 0
        /\ Len(mockCall.result.value) = mockCall.payload.n_variants
        /\ \A i \in 1..Len(mockCall.result.value) :
              /\ IsAdVariant(mockCall.result.value[i])
              /\ mockCall.payload.channel \in Channels
                    => mockCall.result.value[i].channel = mockCall.payload.channel
        /\ (mockPrevCall.called /\ mockPrevCall.payload = mockCall.payload)
              => mockPrevCall.result = mockCall.result

C5_Witness ==
    /\ mockCall.called
    /\ mockPrevCall.called
    /\ mockPrevCall.payload = mockCall.payload
    /\ mockCall.payload.n_variants = 3
    /\ mockCall.payload.channel = "vk"
    /\ Len(mockCall.result.value) = 3

(***************************************************************************)
(* Claims about the response simulator (SpecSim).                          *)
(***************************************************************************)
InUnitRange(x) == 0 <= x /\ x <= One

Ordered(scores) ==
    /\ InUnitRange(scores.click_probability)
    /\ InUnitRange(scores.purchase_probability)
    /\ scores.purchase_probability <= scores.click_probability

\* C6: for any ad text, product, consumer with price_sensitivity in [0,1] and any
\* two jitters in [-0.02, 0.02], simulate_ad_for_consumer returns click and
\* purchase probabilities in [0,1] with purchase <= click; so are the averages
\* evaluate_ad_on_audience returns for a non-empty audience.
C6_ProbabilitiesBoundedAndOrdered ==
    /\ simCall.called => Ordered(simCall.result)
    /\ (audCall.called /\ Len(audCall.consumers) > 0) =>
          /\ audCall.result.raised = "none"
          /\ Ordered(audCall.result.value)

\* an audience of two has been averaged; for its first consumer the jitter pulled
\* click down and purchase up, and for its second the click probability was clamped at 1.0
C6_Witness ==
    /\ audCall.called
    /\ Len(audCall.consumers) = 2
    /\ audCall.jitters[1] = <<-Jitter, Jitter>>
    /\ audCall.scores[2].click_probability = One
    /\ audCall.result.raised = "none"
    /\ audCall.result.value.click_probability > audCall.result.value.purchase_probability

\* C7: evaluate_ad_on_audience reports AudienceEmptyError for an empty consumer
\* list (no 0, no NaN, no bare zero-division); for a non-empty list it returns the
\* arithmetic mean of the per-consumer click and purchase probabilities.
C7_EmptyAudienceIsAnError ==
    audCall.called =>
        IF Len(audCall.consumers) = 0
        THEN audCall.result.raised = "AudienceEmptyError"
        ELSE /\ audCall.result.raised = "none"
             /\ audCall.result.value.click_probability =
                  SumSeq([i \in 1..Len(audCall.scores) |-> audCall.scores[i].click_probability])
                      \div Len(audCall.consumers)
             /\ audCall.result.value.purchase_probability =
                  SumSeq([i \in 1..Len(audCall.scores) |-> audCall.scores[i].purchase_probability])
                      \div Len(audCall.consumers)

(***************************************************************************)
(* Claims about best-per-channel selection (SpecPick).                     *)
(***************************************************************************)
\* the positions of the list whose ad belongs to the group `key`
GroupOf(scored_ads, key) == {i \in 1..Len(scored_ads) : PickKey(scored_ads[i]) = key}

\* the earliest position of the group that holds the group's largest click_probability
FirstMaxOf(scored_ads, key) ==
    CHOOSE i \in GroupOf(scored_ads, key) :
        \A j \in GroupOf(scored_ads, key) :
            \/ scored_ads[j].evaluation.click_probability
                    < scored_ads[i].evaluation.click_probability
            \/ /\ scored_ads[j].evaluation.click_probability
                    = scored_ads[i].evaluation.click_probability
               /\ i <= j

\* C8: for any list of scored ads, pick_best_per_channel returns exactly one entry
\* per distinct (product, channel) pair of the list, a product being identified by
\* its name as in the function's key; the entry is the ad of the list with the
\* largest click_probability of its group, the earliest such ad when several tie.
C8_OneBestPerProductChannel ==
    pickCall.called =>
        LET ads == pickCall.scored_ads
            best == pickCall.best
        IN  /\ {best[i].key : i \in 1..Len(best)} = {PickKey(ads[i]) : i \in 1..Len(ads)}
            /\ \A i, j \in 1..Len(best) : best[i].key = best[j].key => i = j
            /\ \A i \in 1..Len(best) :
                  best[i].item = ads[FirstMaxOf(ads, best[i].key)]

\* three ads of one (product, channel): the second and the third tie for the
\* maximum and differ, the second is kept
C8_Witness ==
    /\ pickCall.called
    /\ Len(pickCall.scored_ads) = 3
    /\ \A i \in 1..3 : PickKey(pickCall.scored_ads[i]) = <<"A", "vk">>
    /\ pickCall.scored_ads[1].evaluation.click_probability = 2000
    /\ pickCall.scored_ads[2].evaluation.click_probability = 5000
    /\ pickCall.scored_ads[3].evaluation.click_probability = 5000
    /\ pickCall.scored_ads[2] # pickCall.scored_ads[3]
    /\ Len(pickCall.best) = 1
    /\ pickCall.best[1].item = pickCall.scored_ads[2]

(***************************************************************************)
(* Claims about product scoring and selection (SpecTop).                   *)
(***************************************************************************)
\* the record without its score annotation
WithoutAdScore(scored) == [key \in DOMAIN scored \ {"_ad_score"} |-> scored[key]]

\* `top` holds min(k, len(catalog)) records, by non-increasing score, each a record
\* of the catalog with only the score added, none used more often than it occurs
IsTopK(top, catalog, k) ==
    /\ Len(top) = Min(k, Len(catalog))
    /\ \A i \in 1..Len(top) : \A j \in i..Len(top) :
          top[i]["_ad_score"].n >= top[j]["_ad_score"].n
    /\ \E from \in [1..Len(top) -> 1..Len(catalog)] :
          /\ \A i, j \in 1..Len(top) : from[i] = from[j] => i = j
          /\ \A i \in 1..Len(top) :
                /\ "_ad_score" \in DOMAIN top[i]
                /\ WithoutAdScore(top[i]) = catalog[from[i]]

\* every record of the catalog has fields float() accepts
Parsable(catalog) ==
    \A i \in 1..Len(catalog) : ComputeProductAdScore(catalog[i]).raised = "none"

\* C9: for every catalog and every k >= 0, select_top_products returns
\* min(k, len(catalog)) items by non-increasing composite score, each a record of
\* the catalog with only the score annotation added, none more often than it
\* occurs in the catalog.
C9_SelectTopReturnsTopK ==
    topCall.called =>
        /\ topCall.result.raised = "none"
        /\ IsTopK(topCall.result.value, topCall.catalog, topCall.k)

\* what select_top_products does return: the top k of every catalog it can score
SelectTopOfParsableCatalog ==
    (topCall.called /\ Parsable(topCall.catalog)) =>
        /\ topCall.result.raised = "none"
        /\ IsTopK(topCall.result.value, topCall.catalog, topCall.k)

\* a numeric field is malformed: a string float() rejects under price or
\* market_cost, a margin that is not a number
HasMalformedField(product) ==
    \/ /\ Get(product, "price", None).t = "str"
       /\ Float(Get(product, "price", None)).raised # "none"
    \/ /\ Get(product, "market_cost", None).t = "str"
       /\ Float(Get(product, "market_cost", None)).raised # "none"
    \/ Get(product, "margin", None).t = "str"

\* C10: for a product record whose price, market_cost or margin is malformed, the
\* margin scoring, compute_product_ad_score and select_top_products do not raise:
\* a score is returned (the malformed field counting as its default).
C10_MalformedFieldsDoNotRaise ==
    /\ (scoreCall.called /\ HasMalformedField(scoreCall.product)) =>
          /\ scoreCall.margin_score.raised = "none"
          /\ scoreCall.result.raised = "none"
    /\ (topCall.called
            /\ \E i \in 1..Len(topCall.catalog) : HasMalformedField(topCall.catalog[i])) =>
          topCall.result.raised = "none"

\* the margin percentage the margin score is to use: the explicit one when given as
\* a number, else the one derived from price and market_cost, else 30
MarginPercentTimesOne(product) ==
    LET margin == Get(product, "margin", None)
        cost == Get(product, "market_cost", None)
        price == PriceOf(product)
    IN  IF margin.t = "num" THEN margin.n * One
        ELSE IF price.raised = "none" /\ price.value > 0 /\ cost.t = "num"
        THEN ((price.value - cost.n) * 100 * One) \div price.value
        ELSE 30 * One

\* the margin score, in units of 1/One, the percentage gives
MarginScoreOfPercent(product) ==
    LET percent == MarginPercentTimesOne(product)
    IN  IF percent >= 80 * One THEN One
        ELSE IF percent <= 0 THEN 0
        ELSE percent \div 80

\* C11: the margin score is the margin percentage / 80 clamped to [0, 1], the
\* percentage being the explicit margin when one is present, else
\* (price - market_cost) / price * 100 when price > 0 and a cost is present, else 30;
\* so it is 1.0 from 80 percent on and 0.0 up to 0 percent.
C11_MarginScoreIsClampedPercentage ==
    (scoreCall.called /\ Get(scoreCall.product, "market_cost", None).t \in {"none", "num"}) =>
        /\ scoreCall.margin_score.raised = "none"
        /\ scoreCall.margin_score.value = MarginScoreOfPercent(scoreCall.product)

\* what _compute_margin_score does give: the clamped percentage for every record
\* whose price float() accepts and whose margin is not nan
MarginScoreOfParsablePrice ==
    (scoreCall.called
        /\ Get(scoreCall.product, "market_cost", None).t \in {"none", "num"}
        /\ PriceOf(scoreCall.product).raised = "none"
        /\ Get(scoreCall.product, "margin", None).t # "nan") =>
        /\ scoreCall.margin_score.raised = "none"
        /\ scoreCall.margin_score.value = MarginScoreOfPercent(scoreCall.product)


\* C18: select_top_products breaks ties by catalog order: when two catalog records
\* of equal composite score are both in the result, the one earlier in the catalog
\* is earlier in the result, and a record is never selected in preference to a
\* record of equal score that precedes it in the catalog.  `pos` names, for each
\* place of the result, the place of the catalog its record comes from.
C18_TiesKeepCatalogOrder ==
    (topCall.called /\ topCall.result.raised = "none") =>
        LET catalog == topCall.catalog
            top == topCall.result.value
            score(c) == ComputeProductAdScore(catalog[c]).value
        IN  \E pos \in [1..Len(top) -> 1..Len(catalog)] :
               /\ \A i, j \in 1..Len(top) : pos[i] = pos[j] => i = j
               /\ \A j \in 1..Len(top) :
                     /\ WithoutAdScore(top[j]) = catalog[pos[j]]
                     /\ top[j]["_ad_score"].n = score(pos[j])
               /\ \A i, j \in 1..Len(top) :
                     (i < j /\ score(pos[i]) = score(pos[j])) => pos[i] < pos[j]
               /\ \A c \in 1..Len(catalog), j \in 1..Len(top) :
                     ((\A i \in 1..Len(top) : pos[i] # c) /\ score(c) = score(pos[j]))
                        => pos[j] < c

\* three records, the first and the third of equal score and above the second,
\* k = 2: both are selected, the first before the third
C18_Witness ==
    /\ topCall.called /\ topCall.result.raised = "none" /\ topCall.k = 2
    /\ Len(topCall.catalog) = 3
    /\ topCall.catalog[1] # topCall.catalog[3]
    /\ ComputeProductAdScore(topCall.catalog[1]).value
          = ComputeProductAdScore(topCall.catalog[3]).value
    /\ ComputeProductAdScore(topCall.catalog[2]).value
          < ComputeProductAdScore(topCall.catalog[1]).value
    /\ Len(topCall.result.value) = 2
    /\ WithoutAdScore(topCall.result.value[1]) = topCall.catalog[1]
    /\ WithoutAdScore(topCall.result.value[2]) = topCall.catalog[3]

\* the labels of a comma-joined tags string of the model
LabelsOf(string) ==
    CASE string = "bestseller, novinka" -> <<"bestseller", "novinka">>
      [] string = "novinka,yarkiy dizayn" -> <<"novinka", "yarkiy dizayn">>
      [] OTHER -> <<string>>

\* the product with its tags given as `tags`
WithTags(product, tags) ==
    [key \in DOMAIN product \cup {"tags"} |-> IF key = "tags" THEN tags ELSE product[key]]

\* tags is missing, null, a comma-joined string or a list of labels
TagsAsSpecified(product) == Get(product, "tags", None).t \in {"none", "str", "list"}

\* C21: tags are normalized to a list before scoring: a product whose tags are a
\* comma-joined string gets the tag score of the product whose tags are the list
\* of the same labels, and tag scoring does not raise for tags given as a list,
\* as a comma-joined string, or missing; a catalog read from a CSV file gives a
\* missing tags cell as the float nan.
C21_TagsAreNormalized ==
    scoreCall.called =>
        LET tags == Get(scoreCall.product, "tags", None)
        IN  /\ scoreCall.tag_score.raised = "none"
            /\ tags.t = "str" =>
                  scoreCall.tag_score
                     = ComputeTagScore(WithTags(scoreCall.product, List(LabelsOf(tags.s))))

\* what _compute_tag_score does guarantee: the same, for tags that are absent,
\* None, a str or a list of str
TagsNormalizedWhenStrOrList ==
    (scoreCall.called /\ TagsAsSpecified(scoreCall.product)) =>
        LET tags == Get(scoreCall.product, "tags", None)
        IN  /\ scoreCall.tag_score.raised = "none"
            /\ tags.t = "str" =>
                  scoreCall.tag_score
                     = ComputeTagScore(WithTags(scoreCall.product, List(LabelsOf(tags.s))))

C19_ProfilesOfTheAudience ==
    (genCall.called /\ genCall.n >= 1) =>
        LET consumers == genCall.result
        IN  /\ Len(consumers) = genCall.n
            /\ \A i, j \in 1..Len(consumers) : consumers[i].id = consumers[j].id => i = j
            /\ \A i \in 1..Len(consumers) :
                  /\ consumers[i].price_sensitivity =
                        CASE consumers[i].segment = "Low_income_pragmatic_youth" -> (9 * One) \div 10
                          [] consumers[i].segment = "Family_buyer_value_seeker" -> (8 * One) \div 10
                          [] consumers[i].segment = "Middle_income_tech_enthusiast" -> (6 * One) \div 10
                          [] consumers[i].segment = "Premium_quality_oriented" -> (4 * One) \div 10
                  /\ consumers[i].price_sensitivity \in 0..One

\* an audience of four profiles with ids 1..4 of three different segments
C19_Witness ==
    /\ genCall.called /\ genCall.n = 4 /\ Len(genCall.result) = 4
    /\ {genCall.result[i].id : i \in 1..4} = 1..4
    /\ Cardinality({genCall.result[i].segment : i \in 1..4}) = 3
    /\ genCall.result[4].price_sensitivity = (4 * One) \div 10

\* C24: audience generation is reproducible: two calls of
\* generate_synthetic_consumers with the same n return identical lists whatever
\* was drawn from `random` before each call, and the audience for n is a prefix
\* of the audience for n + 1.
C24_AudienceIsReproducible ==
    (genCall.called /\ genCall.previous.called) =>
        /\ genCall.n = genCall.previous.n => genCall.result = genCall.previous.result
        /\ genCall.n = genCall.previous.n + 1 =>
              SubSeq(genCall.result, 1, genCall.previous.n) = genCall.previous.result
        /\ genCall.previous.n = genCall.n + 1 =>
              SubSeq(genCall.previous.result, 1, genCall.n) = genCall.result

\* two calls with n = 2, the second after another draw from the generator the
\* first call had left
C24_Witness ==
    /\ genCall.called /\ genCall.previous.called
    /\ genCall.n = 2 /\ genCall.previous.n = 2
    /\ genCall.rng_before.seed = "42" /\ genCall.rng_before.drawn # 0
    /\ Len(genCall.result) = 2 /\ genCall.result = genCall.previous.result

(***************************************************************************)
(* Claims about the campaign run (SpecRun).                                *)
(***************************************************************************)
\* C12: once the client of a run is chosen, it is the remote client when
\* MISTRAL_API_KEY is present and the mock client when it is absent, in which case
\* the run proceeds instead of failing; the choice is made once per run.
C12_ClientFollowsCredential ==
    (run.called /\ run.stage # "INIT") =>
        /\ run.clients_selected = 1
        /\ run.api_key \notin {Missing, ""} => run.llm_client = "MistralClient"
        /\ run.api_key \in {Missing, ""} =>
              /\ run.llm_client = "MockLLMClient"
              /\ ~(run.stage = "FAILED" /\ run.products_done = 0 /\ run.top = Nothing
                     /\ run.error = "ValueError" /\ run.llm_client = "")

\* what get_llm_client does: the client follows use_mistral, and the remote client
\* without a key is a ValueError
ClientFollowsFlag ==
    (run.called /\ run.stage # "INIT") =>
        /\ run.clients_selected = 1
        /\ (run.use_mistral /\ run.api_key \notin {Missing, ""}) =>
              run.llm_client = "MistralClient"
        /\ ~run.use_mistral => run.llm_client = "MockLLMClient"
        /\ (run.use_mistral /\ run.api_key \in {Missing, ""}) =>
              run.stage = "FAILED" /\ run.error = "ValueError"


\* the scored ads of one product: v for each of telegram, vk, yandex_ads, in that order
ThreeTimesV(ads, v) ==
    /\ Len(ads) = 3 * v
    /\ \A j \in 1..Len(ads) : ads[j].channel = ChannelOrder[((j - 1) \div v) + 1]

\* the run used the mock client and asked for at least one variant per channel
MockRun == run.called /\ run.llm_client = "MockLLMClient" /\ run.n_variants >= 1

\* C13: with the mock client, k top products and v variants per channel,
\* build_scored_ads_for_product yields 3 * v scored ads per top product, v per
\* channel in the order telegram, vk, yandex_ads; the campaign document reports
\* n_top_products_used = k and n_all_ads_generated = 3 * v * k; for the catalog
\* [A, B] of the end-to-end scenario and k = 1 the top product is A.
C13_MockRunCounts ==
    MockRun =>
        /\ \A p \in 1..Len(run.ads_of) : ThreeTimesV(run.ads_of[p], run.n_variants)
        /\ run.stage = "ASSEMBLED" =>
              /\ run.document.n_top_products_used = Len(run.top)
              /\ run.document.n_all_ads_generated = 3 * run.n_variants * Len(run.top)
        /\ (run.top # Nothing /\ run.k = 1
              /\ run.catalog = <<Record("A", Num(1000)), Record("B", Num(500))>>) =>
              /\ Len(run.top) = 1
              /\ WithoutAdScore(run.top[1]) = Record("A", Num(1000))

\* the names of the top products of the run are pairwise distinct
DistinctNames ==
    \A i, j \in 1..Len(run.top) :
        Get(run.top[i], "name", Str("")) = Get(run.top[j], "name", Str("")) => i = j

\* what the run does report: the counts of C13 when no two top products share a name
MockRunCountsOfDistinctNames ==
    (MockRun /\ DistinctNames) =>
        /\ \A p \in 1..Len(run.ads_of) : ThreeTimesV(run.ads_of[p], run.n_variants)
        /\ run.stage = "ASSEMBLED" =>
              /\ run.document.n_top_products_used = Len(run.top)
              /\ run.document.n_all_ads_generated = 3 * run.n_variants * Len(run.top)


\* the entry of the campaigns list made of one selected ad
CampaignEntryOf(item) ==
    [product |-> item.product, channel |-> item.channel, ad |-> item.ad,
     evaluation |-> item.evaluation]

\* C14: in every assembled campaign document the count fields agree with the run:
\* n_products_in_catalog is the catalog size, n_top_products_used the number of top
\* products selected, n_all_ads_generated the number of scored ads produced, and
\* n_best_ads_in_campaign the length of the campaigns list, whose entries are the
\* selected ads in their given order.
C14_DocumentCountsAgreeWithRun ==
    (run.called /\ run.stage = "ASSEMBLED") =>
        LET document == run.document
        IN  /\ document.n_products_in_catalog = Len(run.catalog)
            /\ document.n_top_products_used = Len(run.top)
            /\ document.n_all_ads_generated = Len(run.all_ads)
            /\ document.n_best_ads_in_campaign = Len(document.campaigns)
            /\ Len(document.campaigns) = Len(run.best)
            /\ \A i \in 1..Len(run.best) :
                  [f \in {"product", "channel", "ad", "evaluation"} |->
                      document.campaigns[i][f]] = CampaignEntryOf(run.best[i].item)

\* what build_campaign_json does guarantee: every count but n_top_products_used,
\* which is the number of distinct product names among the selected ads
DocumentCountsButTopProducts ==
    (run.called /\ run.stage = "ASSEMBLED") =>
        LET document == run.document
        IN  /\ document.n_products_in_catalog = Len(run.catalog)
            /\ document.n_top_products_used =
                  Cardinality({run.best[i].item.product.name : i \in 1..Len(run.best)})
            /\ document.n_all_ads_generated = Len(run.all_ads)
            /\ document.n_best_ads_in_campaign = Len(document.campaigns)
            /\ Len(document.campaigns) = Len(run.best)
            /\ \A i \in 1..Len(run.best) :
                  [f \in {"product", "channel", "ad", "evaluation"} |->
                      document.campaigns[i][f]] = CampaignEntryOf(run.best[i].item)


\* no two ads of one group of the list have equal click_probability
NoTies(scored_ads) ==
    \A i, j \in 1..Len(scored_ads) :
        (i # j /\ PickKey(scored_ads[i]) = PickKey(scored_ads[j])) =>
            scored_ads[i].evaluation.click_probability
                # scored_ads[j].evaluation.click_probability

\* C17: best-ad selection does not depend on the order of the list: for two
\* orderings of the same scored ads in which no two ads of one (product, channel)
\* group have equal click_probability, pick_best_per_channel selects the same ad
\* for every group; with exact ties the ad seen first in each ordering wins.
C17_SelectionIsOrderIndependent ==
    pickCall.called =>
        LET best == pickCall.best
            other == pickCall.best_reordered
        IN  /\ NoTies(pickCall.scored_ads) =>
                  {best[i] : i \in 1..Len(best)} = {other[i] : i \in 1..Len(other)}
            /\ \A i \in 1..Len(other) :
                  other[i].item
                     = pickCall.reordered[FirstMaxOf(pickCall.reordered, other[i].key)]

\* three ads of two groups without a tie, reversed: the best of the first group
\* is met last in one order and first in the other, and is selected in both
C17_Witness ==
    /\ pickCall.called /\ Len(pickCall.scored_ads) = 3 /\ NoTies(pickCall.scored_ads)
    /\ pickCall.reordered # pickCall.scored_ads
    /\ PickKey(pickCall.scored_ads[1]) = PickKey(pickCall.scored_ads[3])
    /\ PickKey(pickCall.scored_ads[1]) # PickKey(pickCall.scored_ads[2])
    /\ pickCall.scored_ads[3] = pickCall.reordered[1]
    /\ pickCall.scored_ads[1].evaluation.click_probability = 2000
    /\ pickCall.scored_ads[3].evaluation.click_probability = 5000
    /\ \E i \in 1..2, j \in 1..2 :
          /\ pickCall.best[i].item = pickCall.scored_ads[3]
          /\ pickCall.best_reordered[j].item = pickCall.scored_ads[3]
    /\ Len(pickCall.best) = 2 /\ Len(pickCall.best_reordered) = 2

\* every top product of the run has at least one scored ad in every channel
EveryPairHasAnAd ==
    \A p \in 1..Len(run.ads_of) : \A c \in 1..Len(ChannelOrder) :
        \E a \in 1..Len(run.ads_of[p]) : run.ads_of[p][a].channel = ChannelOrder[c]

\* C26: pick_best_per_channel never loses a (product, channel) pair: for every
\* scored ad of its input, the products being distinct top-k catalog records even
\* when two of them have the same name, the output has an entry of that product
\* record and channel, so the best set has 3 entries per top product whenever
\* each (product, channel) received at least one variant.
C26_NoPairIsLost ==
    (run.called /\ run.stage \in {"SELECTED", "ASSEMBLED"}) =>
        /\ \A a \in 1..Len(run.all_ads) : \E b \in 1..Len(run.best) :
              /\ run.best[b].item.product = run.all_ads[a].product
              /\ run.best[b].item.channel = run.all_ads[a].channel
        /\ EveryPairHasAnAd => Len(run.best) = 3 * Len(run.top)

\* what pick_best_per_channel does guarantee: no pair is lost when the names of
\* the top products are pairwise distinct
NoPairIsLostOfDistinctNames ==
    (run.called /\ run.stage \in {"SELECTED", "ASSEMBLED"} /\ DistinctNames) =>
        /\ \A a \in 1..Len(run.all_ads) : \E b \in 1..Len(run.best) :
              /\ run.best[b].item.product = run.all_ads[a].product
              /\ run.best[b].item.channel = run.all_ads[a].channel
        /\ EveryPairHasAnAd => Len(run.best) = 3 * Len(run.top)

(***************************************************************************)
(* Claims about the pipeline of the page (SpecApp).                        *)
(***************************************************************************)
\* C15: when the loaded catalog has zero records the run reports an error and halts
\* before scoring: select_top_products is never invoked, no ad variant is
\* generated and no campaign document is produced.
C15_EmptyCatalogHalts ==
    (appRun.called /\ appRun.uploaded /\ appRun.catalog = <<>>) =>
        /\ appRun.stage = "STOPPED"
        /\ appRun.message = "error: catalog not read"
        /\ appRun.select_top_calls = 0
        /\ appRun.generator_calls = 0
        /\ appRun.all_variants = Nothing
        /\ appRun.final_json = Nothing

\* a file was uploaded, its catalog is empty, and the script has stopped
C15_Witness ==
    /\ appRun.called /\ appRun.uploaded /\ appRun.catalog = <<>>
    /\ appRun.stage = "STOPPED" /\ appRun.message = "error: catalog not read"


\* the places of the campaigns list that are marked as examples
Examples == {i \in 1..Len(appRun.final_json.campaigns) :
                appRun.final_json.campaigns[i].is_sample_example}

\* C22: the example subset is derived from the full list of generated ads without
\* generating again: exactly min(2, total ads) entries are marked, they are the
\* ads of the two highest scores, the earlier in product-then-channel order on
\* ties, and the full list keeps its members and their order.
C22_ExamplesAreTheBestTwo ==
    (appRun.called /\ appRun.stage = "ASSEMBLED") =>
        LET ads == appRun.all_variants
            campaigns == appRun.final_json.campaigns
        IN  /\ Cardinality(Examples) = Min(2, Len(ads))
            /\ appRun.final_json.n_example_ads_shown = Cardinality(Examples)
            /\ \A i \in Examples : \A j \in (1..Len(ads)) \ Examples :
                  \/ ads[i].score > ads[j].score
                  \/ ads[i].score = ads[j].score /\ i < j
            /\ Len(campaigns) = Len(ads)
            /\ \A i \in 1..Len(ads) :
                  /\ campaigns[i].ad = ads[i].ad
                  /\ campaigns[i].channel = ads[i].ad.channel
                  /\ campaigns[i].internal_score = ads[i].score
                  /\ campaigns[i].product = ProductSummary(ads[i].product)
            /\ appRun.generator_calls = 3 * Reruns * Len(appRun.top_products)

\* nine ads of three products: the examples tie with a later ad that is not
\* marked, and an ad before the second example is not marked
C22_Witness ==
    /\ appRun.called /\ appRun.stage = "ASSEMBLED" /\ Len(appRun.all_variants) = 9
    /\ Cardinality(Examples) = 2
    /\ \E i \in Examples, j \in (1..9) \ Examples :
          i < j /\ appRun.all_variants[i].score = appRun.all_variants[j].score
    /\ \E i \in Examples, j \in (1..9) \ Examples :
          j < i /\ appRun.all_variants[j].score < appRun.all_variants[i].score

\* the score of the candidate that rerun r generates for the ad at place a of
\* all_variants: the product is top_products[(a - 1) \div 3 + 1]
CandidateScore(a, channel, r) ==
    LET p == ((a - 1) \div 3) + 1
        product == appRun.top_products[p]
        draw == appRun.draws[p][r]
    IN  ScoreAdVariant(AppVariant(channel, product, draw), product, draw.jitter)

\* C23: for every top product and each of telegram, vk, yandex_ads,
\* generate_best_for_channel returns one variant whose internal score is the
\* maximum over the candidates of its reruns, the earliest candidate on ties; the
\* document holds exactly 3 ads per top product in the channel order telegram,
\* vk, yandex_ads, and n_all_ads = 3 * n_top_products_used.
C23_BestOfRerunsPerChannel ==
    (appRun.called /\ appRun.stage \in {"GENERATING", "ASSEMBLED"}) =>
        LET ads == appRun.all_variants
        IN  /\ Len(ads) = 3 * appRun.products_done
            /\ \A a \in 1..Len(ads) :
                  LET channel == <<"telegram", "vk", "yandex_ads">>[((a - 1) % 3) + 1]
                  IN  /\ ads[a].ad.channel = channel
                      /\ ads[a].product = appRun.top_products[((a - 1) \div 3) + 1]
                      /\ ads[a].rerun \in 1..Reruns
                      /\ ads[a].score = CandidateScore(a, channel, ads[a].rerun)
                      /\ ads[a].ad = AppVariant(channel, ads[a].product,
                                        appRun.draws[((a - 1) \div 3) + 1][ads[a].rerun])
                      /\ \A r \in 1..Reruns :
                            \/ CandidateScore(a, channel, r) < ads[a].score
                            \/ CandidateScore(a, channel, r) = ads[a].score
                                  /\ ads[a].rerun <= r
            /\ appRun.stage = "ASSEMBLED" =>
                  /\ Len(appRun.final_json.campaigns) = 3 * Len(appRun.top_products)
                  /\ appRun.final_json.n_all_ads
                        = 3 * appRun.final_json.n_top_products_used
                  /\ \A a \in 1..Len(ads) :
                        appRun.final_json.campaigns[a].channel
                           = <<"telegram", "vk", "yandex_ads">>[((a - 1) % 3) + 1]

\* a document of two top products: one ad is the candidate of a rerun after the
\* first, and one is the first of several candidates of the same best score
C23_Witness ==
    /\ appRun.called /\ appRun.stage = "ASSEMBLED" /\ Len(appRun.top_products) = 2
    /\ appRun.final_json.n_all_ads = 6
    /\ \E a \in 1..6 : appRun.all_variants[a].rerun > 1
    /\ \E a \in 1..6, r \in 2..Reruns :
          /\ appRun.all_variants[a].rerun = 1
          /\ CandidateScore(a, appRun.all_variants[a].ad.channel, r)
                = appRun.all_variants[a].score

(***************************************************************************)
(* Claims about ProductAnalyzer.run (SpecAnalyzer).                        *)
(***************************************************************************)
\* what the request made for product i gave
OutcomeOf(i) ==
    analyzer.outcomes[CHOOSE j \in 1..Len(analyzer.completion) : analyzer.completion[j] = i]

\* the query failed: an HTTP error status, a connection error or a timeout
QueryFailed(outcome) == outcome.net \in {"connection_error", "timeout"} \/ outcome.status >= 400

\* the query gave no topRequests data: no such key, or an empty list
NoTopRequests(outcome) == "topRequests" \notin outcome.keys \/ outcome.topRequests = <<>>

\* C16: when a demand query fails (HTTP error status, connection error, timeout)
\* or returns no topRequests data, the demand of its product is 0 and the batch
\* is not aborted: every product of the catalog is scored, and every other
\* product has the demand of its own successful query.
C16_FailedQueryIsZeroDemand ==
    (analyzer.called /\ analyzer.token) =>
        /\ analyzer.stage # "ABORTED"
        /\ analyzer.stage = "SAVED" =>
              /\ Len(analyzer.processed) = Len(analyzer.products)
              /\ \A i \in 1..Len(analyzer.products) :
                    /\ analyzer.processed[i].product = analyzer.products[i]
                    /\ analyzer.processed[i]._temp_trend =
                          IF QueryFailed(OutcomeOf(i)) \/ NoTopRequests(OutcomeOf(i)) THEN 0
                          ELSE SumCounts(OutcomeOf(i).topRequests)

\* a run is complete in which one query failed, one gave no topRequests and one
\* gave a demand of its own
C16_Witness ==
    /\ analyzer.called /\ analyzer.token /\ analyzer.stage = "SAVED"
    /\ \E i, j, h \in 1..Len(analyzer.products) :
          /\ QueryFailed(OutcomeOf(i)) /\ analyzer.processed[i]._temp_trend = 0
          /\ ~QueryFailed(OutcomeOf(j)) /\ NoTopRequests(OutcomeOf(j))
          /\ analyzer.processed[j]._temp_trend = 0
          /\ analyzer.processed[h]._temp_trend = 1100


\* C25: the demand queries of all products are issued together and scoring starts
\* only after every query has completed; for every completion order of the
\* queries, the demand used to score product i is the result of the query issued
\* for product i.
C25_DemandIsOfTheOwnQuery ==
    analyzer.called =>
        /\ analyzer.stage = "QUERYING" => analyzer.processed = Nothing
        /\ analyzer.stage = "SAVED" =>
              /\ {analyzer.completion[j] : j \in 1..Len(analyzer.completion)}
                    = 1..Len(analyzer.products)
              /\ Len(analyzer.completion) = Len(analyzer.products)
              /\ \A i \in 1..Len(analyzer.products) :
                    /\ analyzer.processed[i].product = analyzer.products[i]
                    /\ analyzer.processed[i]._temp_trend =
                          IF QueryFailed(OutcomeOf(i)) \/ NoTopRequests(OutcomeOf(i)) THEN 0
                          ELSE SumCounts(OutcomeOf(i).topRequests)
                    /\ analyzer.api_responses[i] =
                          IF QueryFailed(OutcomeOf(i)) THEN Nothing
                          ELSE [keys |-> OutcomeOf(i).keys,
                                topRequests |-> OutcomeOf(i).topRequests]

\* three products whose queries completed in the order 3, 1, 2 with three different
\* demands, each scored with the demand of its own query
C25_Witness ==
    /\ analyzer.called /\ analyzer.stage = "SAVED" /\ Len(analyzer.products) = 3
    /\ analyzer.completion = <<3, 1, 2>>
    /\ analyzer.processed[1]._temp_trend = 100
    /\ analyzer.processed[2]._temp_trend = 1100
    /\ analyzer.processed[3]._temp_trend = 0
    /\ SumCounts(analyzer.outcomes[1].topRequests) = 0
    /\ SumCounts(analyzer.outcomes[2].topRequests) = 100
    /\ SumCounts(analyzer.outcomes[3].topRequests) = 1100

=============================================================================
